---- MODULE Spec2Model ----
(***************************************************************************)
(* A model of the Character class of src/js/character.ts (the revision at  *)
(* lines 918-1882): the capability resolver, the Markov behaviour model,   *)
(* the physics integrator, the pointer/drag controller, the hit tester,    *)
(* the frame loop and the load / destroy lifecycle.                        *)
(*                                                                         *)
(* Units.  Time is in milliseconds.  Positions are in 1/1000 pixel and     *)
(* velocities in 1/1000 pixel per second (Milli(n) is n whole units), so   *)
(* the doubles of the source are fixed-point numbers here and a product    *)
(* is truncated toward zero at that resolution.  Probabilities and random  *)
(* draws are in hundredths (0.55 is 55).  Sequences are 1-based: index 0   *)
(* stands for the -1 of Array.indexOf.                                     *)
(***************************************************************************)
EXTENDS Integers, Sequences, FiniteSets, TLC

----------------------------------------------------------------------------
(* Program constants *)

MOVING_SPEED == 30

GRAVITY == 1000

\* DRAG = 0.98, in hundredths
DRAG == 98

MAX_VELOCITY == 1000

MIN_VELOCITY == 5

\* BOUNCE_DAMPING = 0.7, in hundredths
BOUNCE_DAMPING == 70

HIT_TEST_INTERVAL == 5

SAVE_INTERVAL == 1000

\* Math.random() < 0.4 in nextAction, in hundredths
TURN_PROBABILITY == 40

ANIMATION_NAMES == <<"Relax", "Interact", "Move", "Sit", "Sleep", "Special">>

ANIMATION_MARKOV ==
    << <<50, 0, 20, 10, 10, 10>>,
       <<100, 0, 0, 0, 0, 0>>,
       <<20, 0, 60, 0, 0, 20>>,
       <<30, 0, 0, 50, 0, 20>>,
       <<10, 0, 0, 0, 90, 0>>,
       <<40, 0, 40, 10, 10, 0>> >>

ANIMATION_NAMES_VEHICLE == <<"Relax", "Interact", "Move", "Special">>

\* A table in which "Interact" can be followed by a walk
ANIMATION_MARKOV_VEHICLE_InteractMoves ==
    << <<40, 0, 50, 10>>,
       <<50, 0, 50, 0>>,
       <<30, 0, 60, 10>>,
       <<50, 0, 50, 0>> >>

ANIMATION_MARKOV_VEHICLE ==
    << <<40, 0, 50, 10>>,
       <<100, 0, 0, 0>>,
       <<30, 0, 60, 10>>,
       <<50, 0, 50, 0>> >>

ANIMATION_NAMES_NO_SPECIAL == <<"Relax", "Interact", "Move", "Sit", "Sleep">>

\* The default table with the "Special" column and row dropped and the
\* first row left as it was
ANIMATION_MARKOV_NO_SPECIAL_Unnormalised ==
    << <<50, 0, 20, 10, 10>>,
       <<100, 0, 0, 0, 0>>,
       <<20, 0, 80, 0, 0>>,
       <<30, 0, 0, 70, 0>>,
       <<10, 0, 0, 0, 90>> >>

ANIMATION_MARKOV_NO_SPECIAL ==
    << <<50, 0, 25, 15, 10>>,
       <<100, 0, 0, 0, 0>>,
       <<20, 0, 80, 0, 0>>,
       <<30, 0, 0, 70, 0>>,
       <<10, 0, 0, 0, 90>> >>

ANIMATION_NAMES_VEHICLE_NO_SPECIAL == <<"Relax", "Interact", "Move">>

\* A table in which a walk can turn into "Interact"
ANIMATION_MARKOV_VEHICLE_NO_SPECIAL_Interact ==
    << <<50, 0, 50>>,
       <<100, 0, 0>>,
       <<30, 20, 50>> >>

ANIMATION_MARKOV_VEHICLE_NO_SPECIAL ==
    << <<50, 0, 50>>,
       <<100, 0, 0>>,
       <<30, 0, 70>> >>

----------------------------------------------------------------------------
(* The environment: the window, the canvas box and the rendered image *)

\* window.innerWidth and window.innerHeight, in pixels
innerWidth == 1000

innerHeight == 800

\* canvas.offsetWidth / offsetHeight as updateCanvasSize leaves them for that
\* window: base 210, scale clamped to maxScale 2
offsetWidth == 420

offsetHeight == 420

\* Math.max(2, window.devicePixelRatio || 1) on a standard display
pixelRatio == 2

Milli(n) == n * 1000

\* Division truncating toward zero (the resolution cut of a double product)
Tdiv(a, b) == IF a >= 0 THEN a \div b ELSE -((-a) \div b)

Abs(a) == IF a < 0 THEN -a ELSE a

Min(a, b) == IF a < b THEN a ELSE b

Max(a, b) == IF a > b THEN a ELSE b

maxX == Milli(innerWidth - offsetWidth)

maxY == Milli(innerHeight - offsetHeight)

\* canvas.width / canvas.height: the render target, in device pixels
canvasWidth == offsetWidth * pixelRatio

canvasHeight == offsetHeight * pixelRatio

\* The alpha the first pass leaves in the render target at device pixel
\* (px, py), row 0 at the bottom: the character stands on the bottom edge
\* around skeleton.x = canvas.width / 2.
PixelAlpha(px, py) ==
    IF Abs(px - canvasWidth \div 2) <= 100 /\ py <= 300 THEN 255 ELSE 0

\* The position fields before the first load. x = -1; y = 1e9 stands for
\* "below every window": it is held as 1e6 pixels to stay in 32 bits.
UnresolvedX == Milli(-1)

UnresolvedY == Milli(1000 * 1000)

----------------------------------------------------------------------------
(* Capability resolver and behaviour transition model *)

BaseAnimations == {"Relax", "Interact", "Move"}

OptionalAnimations == {"Sit", "Sleep", "Special"}

\* A model descriptor is identified with the animation names its skeleton
\* data holds (skeletonData.findAnimation).
AllModels == {BaseAnimations \cup s : s \in SUBSET OptionalAnimations}

FindAnimation(m, name) == name \in m

\* A resolver that takes a missing "Sleep" alone for the vehicle mark
ResolveIsVehicle_SleepOnly(m, oldIsVehicle) ==
    IF ~FindAnimation(m, "Sleep") THEN TRUE ELSE oldIsVehicle

\* loadCharacter, lines 1376-1381: the new values of isVehicle and
\* hasSpecialAnimation given the old isVehicle
ResolveIsVehicle(m, oldIsVehicle) ==
    IF ~FindAnimation(m, "Sit") \/ ~FindAnimation(m, "Sleep")
    THEN TRUE
    ELSE oldIsVehicle

ResolveHasSpecial(m) == FindAnimation(m, "Special")

getAnimationNames(veh, special) ==
    IF veh
    THEN IF special THEN ANIMATION_NAMES_VEHICLE
                    ELSE ANIMATION_NAMES_VEHICLE_NO_SPECIAL
    ELSE IF special THEN ANIMATION_NAMES
                    ELSE ANIMATION_NAMES_NO_SPECIAL

getAnimationMarkov(veh, special) ==
    IF veh
    THEN IF special THEN ANIMATION_MARKOV_VEHICLE
                    ELSE ANIMATION_MARKOV_VEHICLE_NO_SPECIAL
    ELSE IF special THEN ANIMATION_MARKOV
                    ELSE ANIMATION_MARKOV_NO_SPECIAL

\* Array.indexOf, 1-based; 0 when absent
IndexOf(seq, x) ==
    IF \E i \in 1..Len(seq) : seq[i] = x
    THEN CHOOSE i \in 1..Len(seq) :
            seq[i] = x /\ \A j \in 1..(i - 1) : seq[j] # x
    ELSE 0

RECURSIVE PickLoop_Strict(_, _, _, _)
\* The loop with random < cumulativeProb for its test
PickLoop_Strict(probabilities, random, i, cum) ==
    IF i > Len(probabilities) THEN 0
    ELSE LET cumulativeProb == cum + probabilities[i]
         IN  IF random < cumulativeProb THEN i
             ELSE PickLoop_Strict(probabilities, random, i + 1, cumulativeProb)

RECURSIVE PickLoop(_, _, _, _)
\* The for loop of randomPick from index i with the running sum cum;
\* 0 is the throw after the loop
PickLoop(probabilities, random, i, cum) ==
    IF i > Len(probabilities) THEN 0
    ELSE LET cumulativeProb == cum + probabilities[i]
         IN  IF random <= cumulativeProb THEN i
             ELSE PickLoop(probabilities, random, i + 1, cumulativeProb)

randomPick(probabilities, random) == PickLoop(probabilities, random, 1, 0)

turnDirection(current) == IF current = "left" THEN "right" ELSE "left"

\* A direction rule that turns on every transition into "Move"
NextDirection_AnyMove(current, nextAnim, random2) ==
    IF nextAnim = "Move"
    THEN IF random2 < TURN_PROBABILITY
         THEN turnDirection(current.direction)
         ELSE current.direction
    ELSE current.direction

\* The direction nextAction gives the new action; random2 is the second draw
NextDirection(current, nextAnim, random2) ==
    IF current.animation = "Relax" /\ nextAnim = "Move"
    THEN IF random2 < TURN_PROBABILITY
         THEN turnDirection(current.direction)
         ELSE current.direction
    ELSE current.direction

\* A nextAction whose result inherits the elapsed time of the current action
nextAction_KeepsTime(current, veh, special, random1, random2) ==
    LET names == getAnimationNames(veh, special)
        animeIndex == IndexOf(names, current.animation)
    IN  IF animeIndex = 0
        THEN [threw |-> TRUE, action |-> current]
        ELSE LET nextIndexProb == getAnimationMarkov(veh, special)[animeIndex]
                 nextAnimIndex == randomPick(nextIndexProb, random1)
             IN  IF nextAnimIndex = 0
                 THEN [threw |-> TRUE, action |-> current]
                 ELSE [threw |-> FALSE,
                       action |->
                         [animation |-> names[nextAnimIndex],
                          direction |->
                            NextDirection(current, names[nextAnimIndex], random2),
                          timestamp |-> current.timestamp]]

\* nextAction: [threw, action]. It throws when the current animation is not
\* in the name list (the row is undefined and randomPick reads its length)
\* and when randomPick runs off the row.
nextAction(current, veh, special, random1, random2) ==
    LET names == getAnimationNames(veh, special)
        animeIndex == IndexOf(names, current.animation)
    IN  IF animeIndex = 0
        THEN [threw |-> TRUE, action |-> current]
        ELSE LET nextIndexProb == getAnimationMarkov(veh, special)[animeIndex]
                 nextAnimIndex == randomPick(nextIndexProb, random1)
             IN  IF nextAnimIndex = 0
                 THEN [threw |-> TRUE, action |-> current]
                 ELSE [threw |-> FALSE,
                       action |->
                         [animation |-> names[nextAnimIndex],
                          direction |->
                            NextDirection(current, names[nextAnimIndex], random2),
                          timestamp |-> 0]]

----------------------------------------------------------------------------
(* Bounds of the model *)

\* Frames a behaviour of Spec runs
MaxFrames == 3

\* Pointer events a behaviour of Spec delivers
MaxEvents == 4

\* Frames a behaviour of SpecLife runs
MaxLifeFrames == 2

\* loadCharacterModel calls after the constructor's own
MaxLoads == 1

\* Frames and pointer events a behaviour of SpecPhys runs
MaxPhysFrames == 4

MaxPhysEvents == 5

\* Frames and pointer events a behaviour of SpecDrag runs
MaxDragFrames == 2

MaxDragEvents == 6

\* Frames and before-unload events a behaviour of SpecStore runs
MaxStoreFrames == 4

MaxStoreEvents == 2

\* Frames a behaviour of SpecWalk runs
MaxWalkFrames == 4

\* Frames and pointer events a behaviour of SpecToss runs
MaxTossFrames == 5

MaxTossEvents == 5

\* Whole frames and pointer events of the falls
MaxFallFrames == 2

MaxFallEvents == 4

\* Frames and pointer events around setAllowInteract
MaxModeFrames == 2

MaxModeEvents == 3

----------------------------------------------------------------------------
(* State *)

VARIABLES
    allowInteract,        \* this.allowInteract
    listeners,            \* the event subscriptions currently registered
    pointerEvents,        \* canvas.style.pointerEvents
    model,                \* this.model
    loads,                \* loadCharacterModel calls in flight: [id, model, phase,
                          \* replaced], replaced being this.model before the call
    loadCalls,            \* number of loadCharacterModel calls made so far
    assets,               \* models whose skeleton and atlas the asset manager holds
    rafQueue,             \* pending requestAnimationFrame callbacks, in request order
    animationFrameId,     \* "null" or "set"
    character,            \* this.character: NoCharacter or the model it was built from
    listening,            \* the AnimationStateAdapter is attached to the live state
    trackAnim,            \* the animation commanded on track 0: [name, loop]
    isVehicle,
    hasSpecialAnimation,
    currentAction,        \* [animation, direction, timestamp]
    position,             \* [x, y]
    velocity,             \* [x, y]
    isDragging,
    dragStartRelative,    \* [x, y]: dragStartRelativeX / dragStartRelativeY
    lastDragEvent,        \* "null" or "event"
    isMouseOver,
    currentMousePos,      \* [x, y] in whole client pixels
    lastMouse,            \* [x, y]: lastMouseX / lastMouseY
    frameCount,
    sinceSave,            \* Date.now() - lastSaveTime, capped at SAVE_INTERVAL
    stored,               \* the session storage entry: NoSnapshot or a snapshot
    destroyLog,           \* the steps destroy() has performed, in order
    lastOp,               \* the handler that ran last and what it did (see Op)
    events,               \* pointer events delivered so far
    sample                \* the nextAction call of the handler that ran last, if any

vars ==
    << allowInteract, listeners, pointerEvents, model, loads, loadCalls, assets,
       rafQueue, animationFrameId, character, listening, trackAnim, isVehicle,
       hasSpecialAnimation, currentAction, position, velocity, isDragging,
       dragStartRelative, lastDragEvent, isMouseOver, currentMousePos, lastMouse,
       frameCount, sinceSave, stored, destroyLog, lastOp, events, sample >>

lifeVars ==
    << model, loads, loadCalls, assets, rafQueue, animationFrameId, character,
       listening, isVehicle, hasSpecialAnimation, destroyLog >>

dragVars == << isDragging, dragStartRelative, lastDragEvent >>

hoverVars == << isMouseOver, currentMousePos, lastMouse, pointerEvents >>

physVars == << position, velocity >>

saveVars == << sinceSave, stored >>

restVars == << saveVars >>

\* this.character before the first load()
NoCharacter == {}

\* sessionStorage.getItem gives null
NoSnapshot ==
    [present |-> FALSE, position |-> [x |-> 0, y |-> 0],
     currentAction |-> [animation |-> "Relax", direction |-> "right", timestamp |-> 0],
     characterResource |-> {}]

NoSample ==
    [taken |-> FALSE, threw |-> FALSE, random1 |-> 0, random2 |-> 0,
     from |-> [animation |-> "Relax", direction |-> "right", timestamp |-> 0],
     to |-> [animation |-> "Relax", direction |-> "right", timestamp |-> 0]]

Point(px, py) == [x |-> px, y |-> py]

\* What is kept of the handler that ran last: whether its guarded body ran
\* (fired), whether it threw, whether the frame ran the hit test, the frame
\* delta or the gap to the previous pointer event (ms), the client point of
\* the event, whether a drag was in progress when a press arrived or a
\* drag that pointer moves have carried when a release arrived, the
\* position and velocity the frame started from, and the u_outlineWidth
\* (pixels) and u_alpha (hundredths) the frame passed to the outline pass
Op(name) ==
    [op |-> name, fired |-> FALSE, threw |-> FALSE, hit |-> FALSE,
     delta |-> 0, at |-> Point(0, 0), dragging |-> FALSE,
     from |-> [position |-> Point(0, 0), velocity |-> Point(0, 0)],
     outlineWidth |-> 0, alpha |-> 100]

\* The subscriptions setupEventListeners, initializeCanvas and the
\* constructor register (lines 1083, 1141, 1167-1188)
HoverListeners == {"document.mousemove.handleMouseMove", "window.resize",
                   "window.beforeunload"}

InteractListeners ==
    {"canvas.click", "canvas.contextmenu", "canvas.mousedown",
     "document.mousemove.handleDrag", "document.mouseup",
     "canvas.touchstart", "document.touchmove", "document.touchend"}

\* A registration that ignores the allowInteract guard
setupEventListeners_Unguarded(interact) == HoverListeners \cup InteractListeners

setupEventListeners(interact) ==
    IF interact THEN HoverListeners \cup InteractListeners ELSE HoverListeners

\* The state the constructor leaves: fields at their initialisers, the
\* listeners registered, no stored snapshot, and the constructor's
\* loadCharacterModel(initialCharacter) call awaiting its fetch.
Constructed(interact, initialCharacter) ==
    /\ allowInteract = interact
    /\ listeners = setupEventListeners(interact)
    /\ pointerEvents = "none"
    /\ model = initialCharacter
    /\ loads = {[id |-> 0, model |-> initialCharacter, phase |-> "fetch",
                 replaced |-> initialCharacter]}
    /\ loadCalls = 0
    /\ assets = {}
    /\ rafQueue = << >>
    /\ animationFrameId = "null"
    /\ character = NoCharacter
    /\ listening = FALSE
    /\ trackAnim = [name |-> "none", loop |-> FALSE]
    /\ isVehicle = FALSE
    /\ hasSpecialAnimation = TRUE
    /\ currentAction = [animation |-> "Relax", direction |-> "right", timestamp |-> 0]
    /\ position = Point(UnresolvedX, UnresolvedY)
    /\ velocity = Point(0, 0)
    /\ isDragging = FALSE
    /\ dragStartRelative = Point(0, 0)
    /\ lastDragEvent = "null"
    /\ isMouseOver = FALSE
    /\ currentMousePos = Point(0, 0)
    /\ lastMouse = Point(-1, -1)
    /\ frameCount = 0
    /\ sinceSave = SAVE_INTERVAL
    /\ stored = NoSnapshot
    /\ destroyLog = << >>
    /\ lastOp = Op("constructor")
    /\ events = 0
    /\ sample = NoSample

\* A member JSON.parse does not find: undefined, as a position or an action
Undefined == [undefined |-> TRUE]

\* undefined as a character model
UndefinedModel == {"undefined"}

\* A session storage entry that is not JSON text
NotJson == [present |-> TRUE, text |-> "not json"]

\* The session storage entry "{}"
EmptyObject == [present |-> TRUE]

\* state.<name> of a parsed entry
Member(state, name, undefined) ==
    IF name \in DOMAIN state THEN state[name] ELSE undefined

\* A restore that keeps the constructor's initialCharacter
loadFromSessionStorage_KeepsModel(entry, pos, action, mdl) ==
    IF ~entry.present \/ "text" \in DOMAIN entry
    THEN [threw |-> entry.present, position |-> pos, currentAction |-> action,
          model |-> mdl]
    ELSE [threw |-> FALSE,
          position |-> Member(entry, "position", Undefined),
          currentAction |-> Member(entry, "currentAction", Undefined),
          model |-> mdl]

\* loadFromSessionStorage (lines 1331-1339) on the entry of the character's
\* key, with the fields as the initialisers and the constructor left them:
\* a null entry is skipped, JSON.parse throws on text that is not JSON, and
\* the three members of the parsed value are assigned as they are
loadFromSessionStorage(entry, pos, action, mdl) ==
    IF ~entry.present
    THEN [threw |-> FALSE, position |-> pos, currentAction |-> action, model |-> mdl]
    ELSE IF "text" \in DOMAIN entry
    THEN [threw |-> TRUE, position |-> pos, currentAction |-> action, model |-> mdl]
    ELSE [threw |-> FALSE,
          position |-> Member(entry, "position", Undefined),
          currentAction |-> Member(entry, "currentAction", Undefined),
          model |-> Member(entry, "characterResource", UndefinedModel)]

\* The state the constructor (lines 1055-1084) leaves when session storage
\* holds `entry`. An exception of loadFromSessionStorage leaves the
\* constructor before loadCharacterModel and before the beforeunload
\* subscription (line 1083), with the listeners of setupEventListeners
\* registered. loadCharacterModel(this.model) reads model.name before its
\* try block (line 1254): with an undefined model its promise is rejected
\* and nothing is fetched.
ConstructedFrom(entry, interact, initialCharacter) ==
    LET r == loadFromSessionStorage(
                 entry, Point(UnresolvedX, UnresolvedY),
                 [animation |-> "Relax", direction |-> "right", timestamp |-> 0],
                 initialCharacter)
        starts == ~r.threw /\ r.model # UndefinedModel
    IN  /\ allowInteract = interact
        /\ listeners = IF r.threw
                       THEN setupEventListeners(interact) \ {"window.beforeunload"}
                       ELSE setupEventListeners(interact)
        /\ pointerEvents = "none"
        /\ model = r.model
        /\ loads = IF starts
                   THEN {[id |-> 0, model |-> r.model, phase |-> "fetch",
                          replaced |-> r.model]}
                   ELSE {}
        /\ loadCalls = 0
        /\ assets = {}
        /\ rafQueue = << >>
        /\ animationFrameId = "null"
        /\ character = NoCharacter
        /\ listening = FALSE
        /\ trackAnim = [name |-> "none", loop |-> FALSE]
        /\ isVehicle = FALSE
        /\ hasSpecialAnimation = TRUE
        /\ currentAction = r.currentAction
        /\ position = r.position
        /\ velocity = Point(0, 0)
        /\ isDragging = FALSE
        /\ dragStartRelative = Point(0, 0)
        /\ lastDragEvent = "null"
        /\ isMouseOver = FALSE
        /\ currentMousePos = Point(0, 0)
        /\ lastMouse = Point(-1, -1)
        /\ frameCount = 0
        /\ sinceSave = SAVE_INTERVAL
        /\ stored = entry
        /\ destroyLog = << >>
        /\ lastOp = [Op("constructor") EXCEPT !.threw = r.threw, !.fired = starts]
        /\ events = 0
        /\ sample = NoSample

----------------------------------------------------------------------------
(* requestAnimationFrame bookkeeping *)

\* requestAnimationFrame(cb) whose id is dropped
Request(queue, kind) == Append(queue, [kind |-> kind, tracked |-> FALSE])

\* this.animationFrameId = requestAnimationFrame(cb): the new callback is
\* the one animationFrameId names, no older one is
RequestTracked(queue, kind) ==
    Append([i \in 1..Len(queue) |-> [queue[i] EXCEPT !.tracked = FALSE]],
           [kind |-> kind, tracked |-> TRUE])

RECURSIVE Untracked(_)
Untracked(queue) ==
    IF queue = << >> THEN << >>
    ELSE IF Head(queue).tracked THEN Untracked(Tail(queue))
         ELSE <<Head(queue)>> \o Untracked(Tail(queue))

\* if (animationFrameId !== null) cancelAnimationFrame(animationFrameId)
CancelFrame(queue, frameId) == IF frameId # "null" THEN Untracked(queue) ELSE queue

Released == destroyLog # << >>

----------------------------------------------------------------------------
(* Persistence *)

\* The entry JSON.stringify({position, currentAction, characterResource})
\* gives (lines 1323-1327): a member whose value is undefined is left out
Snapshot(pos, action, mdl) ==
    LET members == {"present"}
                   \cup (IF pos # Undefined THEN {"position"} ELSE {})
                   \cup (IF action # Undefined THEN {"currentAction"} ELSE {})
                   \cup (IF mdl # UndefinedModel THEN {"characterResource"} ELSE {})
    IN  [name \in members |->
            CASE name = "position" -> pos
              [] name = "currentAction" -> action
              [] name = "characterResource" -> mdl
              [] OTHER -> TRUE]

\* A save that writes on every call
saveToSessionStorage_Unthrottled(elapsed, old, pos, action, mdl) ==
    [sinceSave |-> 0, stored |-> Snapshot(pos, action, mdl)]

\* saveToSessionStorage: [sinceSave, stored] after the call, given the time
\* since the last write
saveToSessionStorage(elapsed, old, pos, action, mdl) ==
    IF elapsed < SAVE_INTERVAL
    THEN [sinceSave |-> elapsed, stored |-> old]
    ELSE [sinceSave |-> 0, stored |-> Snapshot(pos, action, mdl)]

Elapse(elapsed, delta) == Min(SAVE_INTERVAL, elapsed + delta)

\* onBeforeUnloadRef (lines 1068-1072): lastSaveTime = 0, so the time since
\* the last write is at least SAVE_INTERVAL, then saveToSessionStorage
onBeforeUnload ==
    /\ "window.beforeunload" \in listeners
    /\ LET saved == saveToSessionStorage(SAVE_INTERVAL, stored, position,
                                         currentAction, model)
       IN  /\ sinceSave' = saved.sinceSave
           /\ stored' = saved.stored
    /\ lastOp' = Op("beforeunload")
    /\ sample' = NoSample
    /\ events' = events + 1
    /\ UNCHANGED << allowInteract, listeners, trackAnim, currentAction, frameCount >>
    /\ UNCHANGED << lifeVars, dragVars, hoverVars, physVars >>

----------------------------------------------------------------------------
(* loadCharacterModel, load *)

\* loadCharacterModel(m) up to its first await: this.model is replaced and
\* the fetches start
LoadCharacterModel(m) ==
    /\ loadCalls < MaxLoads
    /\ loadCalls' = loadCalls + 1
    /\ model' = m
    /\ loads' = loads \cup {[id |-> loadCalls + 1, model |-> m, phase |-> "fetch",
                               replaced |-> model]}
    /\ lastOp' = Op("loadCharacterModel")
    /\ sample' = NoSample
    /\ events' = events
    /\ UNCHANGED << allowInteract, listeners, assets, rafQueue, animationFrameId,
                    character, listening, trackAnim, isVehicle, hasSpecialAnimation,
                    currentAction, frameCount, destroyLog >>
    /\ UNCHANGED << dragVars, hoverVars, physVars, restVars >>

\* The fetches of one call all succeed: setRawDataURI, removeAll, and the
\* skeleton and atlas start loading (lines 1260-1276)
FetchDone(l) ==
    /\ l \in loads
    /\ l.phase = "fetch"
    /\ loads' = (loads \ {l}) \cup {[l EXCEPT !.phase = "assets"]}
    /\ assets' = {}
    /\ lastOp' = Op("fetchDone")
    /\ sample' = NoSample
    /\ events' = events
    /\ UNCHANGED << allowInteract, listeners, model, loadCalls, rafQueue,
                    animationFrameId, character, listening, trackAnim, isVehicle,
                    hasSpecialAnimation, currentAction, frameCount, destroyLog >>
    /\ UNCHANGED << dragVars, hoverVars, physVars, restVars >>

\* A failure whose call still schedules load()
LoadFailed_StartsPoll(l) ==
    /\ l \in loads
    /\ loads' = loads \ {l}
    /\ rafQueue' = Request(rafQueue, "load")
    /\ lastOp' = Op("loadFailed")
    /\ sample' = NoSample
    /\ events' = events
    /\ UNCHANGED << allowInteract, listeners, model, loadCalls, assets,
                    animationFrameId, character, listening, trackAnim, isVehicle,
                    hasSpecialAnimation, currentAction, frameCount, destroyLog >>
    /\ UNCHANGED << dragVars, hoverVars, physVars, restVars >>

\* A fetch fails or the skeleton / atlas fails to load: the catch block logs
\* the error (lines 1294-1296)
LoadFailed(l) ==
    /\ l \in loads
    /\ loads' = loads \ {l}
    /\ lastOp' = Op("loadFailed")
    /\ sample' = NoSample
    /\ events' = events
    /\ UNCHANGED << allowInteract, listeners, model, loadCalls, assets, rafQueue,
                    animationFrameId, character, listening, trackAnim, isVehicle,
                    hasSpecialAnimation, currentAction, frameCount, destroyLog >>
    /\ UNCHANGED << dragVars, hoverVars, physVars, restVars >>

\* The skeleton and atlas of one call are loaded: the promise resolves and
\* the call continues (lines 1288-1292)
AssetsDone(l) ==
    /\ l \in loads
    /\ l.phase = "assets"
    /\ loads' = loads \ {l}
    /\ assets' = assets \cup {l.model}
    /\ rafQueue' = Request(CancelFrame(rafQueue, animationFrameId), "load")
    /\ animationFrameId' = "null"
    /\ lastOp' = Op("assetsDone")
    /\ sample' = NoSample
    /\ events' = events
    /\ UNCHANGED << allowInteract, listeners, model, loadCalls, character,
                    listening, trackAnim, isVehicle, hasSpecialAnimation,
                    currentAction, frameCount, destroyLog >>
    /\ UNCHANGED << dragVars, hoverVars, physVars, restVars >>

\* assetManager.isLoadingComplete(): nothing is being loaded
isLoadingComplete == \A l \in loads : l.phase # "assets"

\* A scheduled load() runs; randomX is the value of
\* Math.random() * (innerWidth - offsetWidth). While assets are loading it
\* polls again. When
\* the asset manager does not hold this.model's assets (another call's
\* removeAll, or dispose), loadCharacter throws on the missing data before
\* it assigns anything, and nothing is scheduled.
Load(randomX) ==
    /\ rafQueue # << >>
    /\ Head(rafQueue).kind = "load"
    /\ IF ~isLoadingComplete
       THEN /\ rafQueue' = Request(Tail(rafQueue), "load")
            /\ lastOp' = Op("loadPoll")
            /\ sample' = NoSample
            /\ events' = events
            /\ UNCHANGED << character, listening, trackAnim, isVehicle,
                            hasSpecialAnimation, currentAction, position >>
       ELSE IF model \notin assets
       THEN /\ rafQueue' = Tail(rafQueue)
            /\ lastOp' = [Op("load") EXCEPT !.threw = TRUE]
            /\ sample' = NoSample
            /\ events' = events
            /\ UNCHANGED << character, listening, trackAnim, isVehicle,
                            hasSpecialAnimation, currentAction, position >>
       ELSE LET veh == ResolveIsVehicle(model, isVehicle)
                special == ResolveHasSpecial(model)
                known == IndexOf(getAnimationNames(veh, special),
                                 currentAction.animation) # 0
                action == IF known THEN currentAction
                          ELSE [currentAction EXCEPT !.animation = "Relax",
                                                     !.timestamp = 0]
            IN  /\ character' = model
                /\ listening' = TRUE
                /\ isVehicle' = veh
                /\ hasSpecialAnimation' = special
                /\ currentAction' = action
                /\ trackAnim' = [name |-> action.animation, loop |-> TRUE]
                /\ position' = IF position.x = UnresolvedX
                               THEN [position EXCEPT !.x = randomX]
                               ELSE position
                /\ rafQueue' = Request(Tail(rafQueue), "render")
                /\ lastOp' = Op("load")
                /\ sample' = NoSample
                /\ events' = events
    /\ UNCHANGED << allowInteract, listeners, model, loads, loadCalls, assets,
                    animationFrameId, velocity, frameCount, destroyLog >>
    /\ UNCHANGED << dragVars, hoverVars, restVars >>

----------------------------------------------------------------------------
(* The frame: physics, locomotion, completion callback, hit test *)

\* A threshold taken in the wrong unit (0.005 px/s)
Snap_Micro(v) == IF Abs(v) < MIN_VELOCITY THEN 0 ELSE v

Snap(v) == IF Abs(v) < Milli(MIN_VELOCITY) THEN 0 ELSE v

\* A clamp that bounds only the velocity towards the right and the floor
Clamp_Upper(v) == Min(Milli(MAX_VELOCITY), v)

Clamp(v) == Max(-Milli(MAX_VELOCITY), Min(Milli(MAX_VELOCITY), v))

\* A wall that stops the character but keeps its velocity
BounceX_NoReflect(x, vx) ==
    IF x < 0 THEN [x |-> 0, v |-> vx]
    ELSE IF x > maxX THEN [x |-> maxX, v |-> vx]
    ELSE [x |-> x, v |-> vx]

\* A window with a right wall only
BounceX_RightWall(x, vx) ==
    IF x > maxX THEN [x |-> maxX, v |-> Tdiv(-vx * BOUNCE_DAMPING, 100)]
    ELSE [x |-> x, v |-> vx]

\* The wall bounce of render (lines 1475-1481): [x, vx]
BounceX(x, vx) ==
    IF x < 0 THEN [x |-> 0, v |-> Tdiv(-vx * BOUNCE_DAMPING, 100)]
    ELSE IF x > maxX THEN [x |-> maxX, v |-> Tdiv(-vx * BOUNCE_DAMPING, 100)]
    ELSE [x |-> x, v |-> vx]

\* A floor and ceiling that stop the character but keep its velocity
CollideY_KeepVelocity(y, vy) ==
    IF y < 0 THEN [y |-> 0, v |-> vy]
    ELSE IF y > maxY THEN [y |-> maxY, v |-> vy]
    ELSE [y |-> y, v |-> vy]

\* A floor that reflects like the walls
CollideY_Bouncy(y, vy) ==
    IF y < 0 THEN [y |-> 0, v |-> Tdiv(-vy * BOUNCE_DAMPING, 100)]
    ELSE IF y > maxY THEN [y |-> maxY, v |-> Tdiv(-vy * BOUNCE_DAMPING, 100)]
    ELSE [y |-> y, v |-> vy]

\* The floor / ceiling collision of render (lines 1484-1490): [y, vy]
CollideY(y, vy) ==
    IF y < 0 THEN [y |-> 0, v |-> 0]
    ELSE IF y > maxY THEN [y |-> maxY, v |-> 0]
    ELSE [y |-> y, v |-> vy]

\* The physics block of render (lines 1448-1491) for a frame of delta ms
PhysicsStep(pos, vel, delta) ==
    LET vy1 == vel.y + GRAVITY * delta
        vx2 == Clamp(Snap(Tdiv(vel.x * DRAG, 100)))
        vy2 == Clamp(Snap(Tdiv(vy1 * DRAG, 100)))
        bx == BounceX(pos.x + Tdiv(vx2 * delta, 1000), vx2)
        by == CollideY(pos.y + Tdiv(vy2 * delta, 1000), vy2)
    IN  [position |-> Point(bx.x, by.y), velocity |-> Point(bx.v, by.v)]

\* The "Move" block of render (lines 1494-1511)
Locomotion(pos, action, delta) ==
    IF action.animation # "Move"
    THEN [position |-> pos, action |-> action]
    ELSE LET movement == MOVING_SPEED * delta
         IN  IF action.direction = "left"
             THEN LET x == Max(0, pos.x - movement)
                  IN  IF x <= 0
                      THEN [position |-> [pos EXCEPT !.x = 0],
                            action |-> [action EXCEPT !.direction = "right"]]
                      ELSE [position |-> [pos EXCEPT !.x = x], action |-> action]
             ELSE LET x == pos.x + movement
                  IN  IF x >= maxX
                      THEN [position |-> [pos EXCEPT !.x = maxX],
                            action |-> [action EXCEPT !.direction = "left"]]
                      ELSE [position |-> [pos EXCEPT !.x = x], action |-> action]

\* Whether render runs the hit test in the frame that makes frameCount n
HitTestDue(n, mouse, last) == n % HIT_TEST_INTERVAL = 0 \/ mouse # last

\* A hit test that reads the row without the vertical flip
HitTest_NoFlip(mouse, pos, interact) ==
    LET pixelX == (Milli(mouse.x) - pos.x) * pixelRatio
        pixelY == (Milli(mouse.y) - pos.y) * pixelRatio
    IN  IF /\ pixelX >= 0 /\ pixelX < Milli(canvasWidth)
           /\ pixelY >= 0 /\ pixelY < Milli(canvasHeight)
        THEN LET over == PixelAlpha(pixelX \div 1000, pixelY \div 1000) # 0
             IN  [isMouseOver |-> over,
                  pointerEvents |-> IF interact /\ over THEN "auto" ELSE "none"]
        ELSE [isMouseOver |-> FALSE, pointerEvents |-> "none"]

\* The hit test of render (lines 1547-1571): [isMouseOver, pointerEvents]
HitTest(mouse, pos, interact) ==
    LET pixelX == (Milli(mouse.x) - pos.x) * pixelRatio
        pixelY == Milli(canvasHeight) - (Milli(mouse.y) - pos.y) * pixelRatio
    IN  IF /\ pixelX >= 0 /\ pixelX < Milli(canvasWidth)
           /\ pixelY >= 0 /\ pixelY < Milli(canvasHeight)
        THEN LET over == PixelAlpha(pixelX \div 1000, pixelY \div 1000) # 0
             IN  [isMouseOver |-> over,
                  pointerEvents |-> IF interact /\ over THEN "auto" ELSE "none"]
        ELSE [isMouseOver |-> FALSE, pointerEvents |-> "none"]

\* An outline shown whenever the pointer is over the character
OutlineWidth_AnyMode(interact, over) == IF over THEN 2 * pixelRatio ELSE 0

\* The u_outlineWidth uniform of the outline pass (line 1591), in pixels
OutlineWidth(interact, over) == IF interact /\ over THEN 2 * pixelRatio ELSE 0

\* The u_alpha uniform of the outline pass (line 1593), in hundredths
OutlineAlpha(interact, over) == IF ~interact /\ over THEN 30 ELSE 100

\* AnimationStateAdapter.complete (lines 1400-1405) on the action cur:
\* [threw, action, track]
Complete(cur, track, veh, special, random1, random2) ==
    LET nx == nextAction(cur, veh, special, random1, random2)
    IN  IF nx.threw
        THEN [threw |-> TRUE, action |-> cur, track |-> track]
        ELSE [threw |-> FALSE, action |-> nx.action,
              track |-> [name |-> nx.action.animation, loop |-> TRUE]]

\* The random draws (hundredths) the sampling specification uses: every
\* twentieth and the largest value below 1
Draws == {5 * k : k \in 0..19} \cup {99}

\* Second draws on both sides of the turn threshold
TurnDraws == {0, 39, 40, 99}

\* The draws the frame loop specifications use: to "Relax", "Move" and
\* "Special", and one on each side of the turn threshold
FrameDraws == {0, 55, 95}

FrameTurnDraws == {39, 40}

\* A frame that runs the Move block after the pose update
Render_LocomotionLast(delta, fire, random1, random2) ==
    /\ rafQueue # << >>
    /\ Head(rafQueue).kind = "render"
    /\ LET n == frameCount + 1
           timed == [currentAction EXCEPT !.timestamp = @ + delta]
           phys == IF ~isDragging
                   THEN PhysicsStep(position, velocity, delta)
                   ELSE [position |-> position, velocity |-> velocity]
           fires == fire /\ listening
           picked == IF fires
                     THEN Complete(timed, trackAnim, isVehicle,
                                   hasSpecialAnimation, random1, random2)
                     ELSE [threw |-> FALSE, action |-> timed, track |-> trackAnim]
           loco == Locomotion(phys.position, picked.action, delta)
           done == [picked EXCEPT !.action = loco.action]
           due == ~done.threw /\ HitTestDue(n, currentMousePos, lastMouse)
           hit == HitTest(currentMousePos, loco.position, allowInteract)
           over == IF due THEN hit.isMouseOver ELSE isMouseOver
           drawn == ~done.threw /\ ~Released
           elapsed == Elapse(sinceSave, delta)
           saved == saveToSessionStorage(elapsed, stored, loco.position,
                                         done.action, model)
       IN  /\ frameCount' = n
           /\ currentAction' = done.action
           /\ trackAnim' = done.track
           /\ position' = loco.position
           /\ velocity' = phys.velocity
           /\ isMouseOver' = over
           /\ pointerEvents' = IF due THEN hit.pointerEvents ELSE pointerEvents
           /\ lastMouse' = IF due THEN currentMousePos ELSE lastMouse
           /\ sinceSave' = IF drawn THEN saved.sinceSave ELSE elapsed
           /\ stored' = IF drawn THEN saved.stored ELSE stored
           /\ rafQueue' = IF drawn THEN RequestTracked(Tail(rafQueue), "render")
                          ELSE Tail(rafQueue)
           /\ animationFrameId' = IF drawn THEN "set" ELSE animationFrameId
           /\ lastOp' = [Op("render") EXCEPT
                           !.fired = fires, !.threw = ~drawn, !.hit = due,
                           !.delta = delta,
                           !.from = [position |-> position, velocity |-> velocity],
                           !.outlineWidth =
                               IF drawn THEN OutlineWidth(allowInteract, over) ELSE 0,
                           !.alpha =
                               IF drawn THEN OutlineAlpha(allowInteract, over) ELSE 100]
           /\ sample' = NoSample
           /\ events' = events
    /\ UNCHANGED << allowInteract, listeners, model, loads, loadCalls, assets,
                    character, listening, isVehicle, hasSpecialAnimation,
                    currentMousePos, destroyLog >>
    /\ UNCHANGED dragVars

\* A scheduled render() runs with frame delta `delta`. `fire` says whether
\* the engine reports the track's animation complete while the pose is
\* applied (line 1526); random1 and random2 are then the draws of nextAction.
\* An exception of the completion callback leaves render at line 1526. After
\* destroy() the outline program is null and getUniformLocation (line 1583)
\* throws; in both cases nothing below runs and no frame is requested.
Render(delta, fire, random1, random2) ==
    /\ rafQueue # << >>
    /\ Head(rafQueue).kind = "render"
    /\ LET n == frameCount + 1
           timed == [currentAction EXCEPT !.timestamp = @ + delta]
           phys == IF ~isDragging
                   THEN PhysicsStep(position, velocity, delta)
                   ELSE [position |-> position, velocity |-> velocity]
           loco == Locomotion(phys.position, timed, delta)
           fires == fire /\ listening
           done == IF fires
                   THEN Complete(loco.action, trackAnim, isVehicle,
                                 hasSpecialAnimation, random1, random2)
                   ELSE [threw |-> FALSE, action |-> loco.action, track |-> trackAnim]
           due == ~done.threw /\ HitTestDue(n, currentMousePos, lastMouse)
           hit == HitTest(currentMousePos, loco.position, allowInteract)
           over == IF due THEN hit.isMouseOver ELSE isMouseOver
           drawn == ~done.threw /\ ~Released
           elapsed == Elapse(sinceSave, delta)
           saved == saveToSessionStorage(elapsed, stored, loco.position,
                                         done.action, model)
       IN  /\ frameCount' = n
           /\ currentAction' = done.action
           /\ trackAnim' = done.track
           /\ position' = loco.position
           /\ velocity' = phys.velocity
           /\ isMouseOver' = over
           /\ pointerEvents' = IF due THEN hit.pointerEvents ELSE pointerEvents
           /\ lastMouse' = IF due THEN currentMousePos ELSE lastMouse
           /\ sinceSave' = IF drawn THEN saved.sinceSave ELSE elapsed
           /\ stored' = IF drawn THEN saved.stored ELSE stored
           /\ rafQueue' = IF drawn THEN RequestTracked(Tail(rafQueue), "render")
                          ELSE Tail(rafQueue)
           /\ animationFrameId' = IF drawn THEN "set" ELSE animationFrameId
           /\ lastOp' = [Op("render") EXCEPT
                           !.fired = fires, !.threw = ~drawn, !.hit = due,
                           !.delta = delta,
                           !.from = [position |-> position, velocity |-> velocity],
                           !.outlineWidth =
                               IF drawn THEN OutlineWidth(allowInteract, over) ELSE 0,
                           !.alpha =
                               IF drawn THEN OutlineAlpha(allowInteract, over) ELSE 100]
           /\ sample' = NoSample
           /\ events' = events
    /\ UNCHANGED << allowInteract, listeners, model, loads, loadCalls, assets,
                    character, listening, isVehicle, hasSpecialAnimation,
                    currentMousePos, destroyLog >>
    /\ UNCHANGED dragVars

----------------------------------------------------------------------------
(* Pointer events *)

\* Whether client point p lies in the canvas box, which sits at `pos`
InCanvasBox(p, pos) ==
    /\ Milli(p.x) >= pos.x /\ Milli(p.x) < pos.x + Milli(offsetWidth)
    /\ Milli(p.y) >= pos.y /\ Milli(p.y) < pos.y + Milli(offsetHeight)

\* The browser delivers a pointer event at p to the canvas element
CanvasTargeted(p) ==
    /\ ~Released
    /\ pointerEvents = "auto"
    /\ InCanvasBox(p, position)

\* handleMouseMove (lines 1429-1432)
handleMouseMove(p) == p

\* handleDrag (lines 1678-1709) for an event at p, `gap` ms after the event
\* lastDragEvent holds: [position, velocity, lastDragEvent]
handleDrag(p, gap) ==
    IF ~isDragging
    THEN [position |-> position, velocity |-> velocity, lastDragEvent |-> lastDragEvent]
    ELSE LET newX == Milli(p.x) - dragStartRelative.x
             newY == Milli(p.y) - dragStartRelative.y
             sampled == lastDragEvent # "null" /\ gap > 0
         IN  [position |-> Point(newX, newY),
              velocity |->
                IF sampled
                THEN Point(Tdiv((newX - position.x) * 1000, gap),
                           Tdiv((newY - position.y) * 1000, gap))
                ELSE velocity,
              lastDragEvent |-> "event"]

\* A mousemove on the document: handleMouseMove, then handleDrag, each if
\* it is subscribed
MouseMove(p, gap) ==
    /\ \/ "document.mousemove.handleMouseMove" \in listeners
       \/ "document.mousemove.handleDrag" \in listeners
    /\ currentMousePos' =
         IF "document.mousemove.handleMouseMove" \in listeners
         THEN handleMouseMove(p) ELSE currentMousePos
    /\ LET d == handleDrag(p, gap)
           on == "document.mousemove.handleDrag" \in listeners
       IN  /\ position' = IF on THEN d.position ELSE position
           /\ velocity' = IF on THEN d.velocity ELSE velocity
           /\ lastDragEvent' = IF on THEN d.lastDragEvent ELSE lastDragEvent
           /\ lastOp' = [Op("mousemove") EXCEPT !.fired = on /\ isDragging,
                                                !.delta = gap, !.at = p]
           /\ sample' = NoSample
           /\ events' = events + 1
    /\ UNCHANGED << allowInteract, listeners, trackAnim, currentAction, frameCount,
                    isDragging, dragStartRelative, isMouseOver, lastMouse,
                    pointerEvents >>
    /\ UNCHANGED << lifeVars, restVars >>

\* A touchmove on the document: handleDrag
TouchMove(p, gap) ==
    /\ "document.touchmove" \in listeners
    /\ LET d == handleDrag(p, gap)
       IN  /\ position' = d.position
           /\ velocity' = d.velocity
           /\ lastDragEvent' = d.lastDragEvent
    /\ lastOp' = [Op("touchmove") EXCEPT !.fired = isDragging,
                                         !.delta = gap, !.at = p]
    /\ sample' = NoSample
    /\ events' = events + 1
    /\ UNCHANGED << allowInteract, listeners, trackAnim, currentAction, frameCount,
                    isDragging, dragStartRelative >>
    /\ UNCHANGED << lifeVars, hoverVars, restVars >>

\* A drag start that leaves the playing action alone
DragStart_KeepAction(kind, p) ==
    /\ IF kind = "touch" THEN "canvas.touchstart" \in listeners
                         ELSE "canvas.mousedown" \in listeners
    /\ CanvasTargeted(p)
    /\ IF kind \in {"primary", "touch"}
       THEN /\ isDragging' = TRUE
            /\ dragStartRelative' =
                 Point(Milli(p.x) - position.x, Milli(p.y) - position.y)
       ELSE UNCHANGED << isDragging, dragStartRelative >>
    /\ lastOp' = [Op("handleDragStart") EXCEPT !.fired = kind # "secondary",
                                               !.at = p,
                                               !.dragging = isDragging]
    /\ sample' = NoSample
    /\ events' = events + 1
    /\ UNCHANGED << allowInteract, listeners, frameCount, lastDragEvent,
                    trackAnim, currentAction >>
    /\ UNCHANGED << lifeVars, hoverVars, physVars, restVars >>

\* handleDragStart (lines 1657-1676) for a mousedown ("primary" or
\* "secondary" button) or a touchstart ("touch", no button field) at p
DragStart(kind, p) ==
    /\ IF kind = "touch" THEN "canvas.touchstart" \in listeners
                         ELSE "canvas.mousedown" \in listeners
    /\ CanvasTargeted(p)
    /\ IF kind \in {"primary", "touch"}
       THEN /\ isDragging' = TRUE
            /\ dragStartRelative' =
                 Point(Milli(p.x) - position.x, Milli(p.y) - position.y)
            /\ IF character # NoCharacter
               THEN /\ trackAnim' = [name |-> "Relax", loop |-> TRUE]
                    /\ currentAction' = [animation |-> "Relax",
                                         direction |-> currentAction.direction,
                                         timestamp |-> 0]
               ELSE UNCHANGED << trackAnim, currentAction >>
       ELSE UNCHANGED << isDragging, dragStartRelative, trackAnim, currentAction >>
    /\ lastOp' = [Op("handleDragStart") EXCEPT !.fired = kind # "secondary",
                                               !.at = p,
                                               !.dragging = isDragging]
    /\ sample' = NoSample
    /\ events' = events + 1
    /\ UNCHANGED << allowInteract, listeners, frameCount, lastDragEvent >>
    /\ UNCHANGED << lifeVars, hoverVars, physVars, restVars >>

\* A release that stops the character where it is
DragEnd_ResetVelocity ==
    /\ \/ "document.mouseup" \in listeners
       \/ "document.touchend" \in listeners
    /\ isDragging' = FALSE
    /\ lastDragEvent' = "null"
    /\ velocity' = Point(0, 0)
    /\ lastOp' = [Op("handleDragEnd") EXCEPT
                    !.dragging = isDragging /\ lastDragEvent # "null"]
    /\ sample' = NoSample
    /\ events' = events + 1
    /\ UNCHANGED << allowInteract, listeners, trackAnim, currentAction, frameCount,
                    dragStartRelative, position >>
    /\ UNCHANGED << lifeVars, hoverVars, restVars >>

\* A release that keeps the last drag sample
DragEnd_KeepSample ==
    /\ \/ "document.mouseup" \in listeners
       \/ "document.touchend" \in listeners
    /\ isDragging' = FALSE
    /\ lastOp' = [Op("handleDragEnd") EXCEPT
                    !.dragging = isDragging /\ lastDragEvent # "null"]
    /\ sample' = NoSample
    /\ events' = events + 1
    /\ UNCHANGED << allowInteract, listeners, trackAnim, currentAction, frameCount,
                    dragStartRelative, lastDragEvent >>
    /\ UNCHANGED << lifeVars, hoverVars, physVars, restVars >>

\* handleDragEnd (lines 1711-1714) for a mouseup or touchend on the document
DragEnd ==
    /\ \/ "document.mouseup" \in listeners
       \/ "document.touchend" \in listeners
    /\ isDragging' = FALSE
    /\ lastDragEvent' = "null"
    /\ lastOp' = [Op("handleDragEnd") EXCEPT
                    !.dragging = isDragging /\ lastDragEvent # "null"]
    /\ sample' = NoSample
    /\ events' = events + 1
    /\ UNCHANGED << allowInteract, listeners, trackAnim, currentAction, frameCount,
                    dragStartRelative >>
    /\ UNCHANGED << lifeVars, hoverVars, physVars, restVars >>

\* A click that starts "Interact" as a looping animation
Click_Looping(p) ==
    /\ "canvas.click" \in listeners
    /\ CanvasTargeted(p)
    /\ IF character # NoCharacter
       THEN /\ currentAction' = [animation |-> "Interact",
                                 direction |-> currentAction.direction,
                                 timestamp |-> 0]
            /\ trackAnim' = [name |-> "Interact", loop |-> TRUE]
       ELSE UNCHANGED << currentAction, trackAnim >>
    /\ lastOp' = [Op("handleCanvasClick") EXCEPT !.at = p]
    /\ sample' = NoSample
    /\ events' = events + 1
    /\ UNCHANGED << allowInteract, listeners, frameCount >>
    /\ UNCHANGED << lifeVars, dragVars, hoverVars, physVars, restVars >>

\* handleCanvasClick (lines 1645-1655) for a click delivered to the canvas
Click(p) ==
    /\ "canvas.click" \in listeners
    /\ CanvasTargeted(p)
    /\ IF character # NoCharacter
       THEN /\ currentAction' = [animation |-> "Interact",
                                 direction |-> currentAction.direction,
                                 timestamp |-> 0]
            /\ trackAnim' = [name |-> "Interact", loop |-> FALSE]
       ELSE UNCHANGED << currentAction, trackAnim >>
    /\ lastOp' = [Op("handleCanvasClick") EXCEPT !.at = p]
    /\ sample' = NoSample
    /\ events' = events + 1
    /\ UNCHANGED << allowInteract, listeners, frameCount >>
    /\ UNCHANGED << lifeVars, dragVars, hoverVars, physVars, restVars >>

----------------------------------------------------------------------------
(* Public operations *)

\* playAnimation (lines 1760-1768). currentAction is replaced first; then
\* this.character.state.setAnimation throws when there is no character yet
\* or the skeleton has no animation of that name, leaving the track as it was.
playAnimation(animationName) ==
    /\ currentAction' = [animation |-> animationName,
                         direction |-> currentAction.direction,
                         timestamp |-> 0]
    /\ LET found == character # NoCharacter /\ FindAnimation(character, animationName)
       IN  /\ trackAnim' = IF found THEN [name |-> animationName, loop |-> TRUE]
                           ELSE trackAnim
           /\ lastOp' = [Op("playAnimation") EXCEPT !.threw = ~found]
           /\ sample' = NoSample
           /\ events' = events
    /\ UNCHANGED << allowInteract, listeners, frameCount >>
    /\ UNCHANGED << lifeVars, dragVars, hoverVars, physVars, restVars >>

\* setAllowInteract (lines 1782-1784)
setAllowInteract(b) ==
    /\ allowInteract' = b
    /\ lastOp' = Op("setAllowInteract")
    /\ sample' = NoSample
    /\ events' = events
    /\ UNCHANGED << listeners, trackAnim, currentAction, frameCount >>
    /\ UNCHANGED << lifeVars, dragVars, hoverVars, physVars, restVars >>

\* The removeEventListener calls of destroy (lines 1094-1105)
DestroyRemoved ==
    {"document.mousemove.handleMouseMove", "document.mousemove.handleDrag",
     "document.mouseup", "document.touchmove", "document.touchend",
     "window.resize", "window.beforeunload",
     "canvas.click", "canvas.mousedown", "canvas.touchstart"}

\* The steps of destroy, in program order (lines 1088-1130)
DestroySteps(frameId, hasCharacter) ==
    (IF frameId # "null" THEN <<"cancelAnimationFrame">> ELSE << >>)
    \o <<"removeEventListeners", "removeCanvas">>
    \o (IF hasCharacter THEN <<"clearTracks", "clearListeners">> ELSE << >>)
    \o <<"releaseWebGLResources", "dispose">>

\* destroy (lines 1086-1131)
destroy ==
    /\ ~Released
    /\ rafQueue' = CancelFrame(rafQueue, animationFrameId)
    /\ animationFrameId' = "null"
    /\ listeners' = listeners \ DestroyRemoved
    /\ listening' = FALSE
    /\ trackAnim' = IF character # NoCharacter
                    THEN [name |-> "none", loop |-> FALSE] ELSE trackAnim
    /\ assets' = {}
    /\ destroyLog' = DestroySteps(animationFrameId, character # NoCharacter)
    /\ lastOp' = Op("destroy")
    /\ sample' = NoSample
    /\ events' = events
    /\ UNCHANGED << allowInteract, model, loads, loadCalls, character, isVehicle,
                    hasSpecialAnimation, currentAction, frameCount >>
    /\ UNCHANGED << dragVars, hoverVars, physVars, restVars >>

----------------------------------------------------------------------------
(* The completion callback on its own *)

\* AnimationStateAdapter.complete applied to the current action with the
\* draws random1 and random2, keeping the call in `sample`
Completion(random1, random2) ==
    /\ listening
    /\ LET done == Complete(currentAction, trackAnim, isVehicle,
                            hasSpecialAnimation, random1, random2)
       IN  /\ currentAction' = done.action
           /\ trackAnim' = done.track
           /\ sample' = [taken |-> TRUE, threw |-> done.threw,
                         random1 |-> random1, random2 |-> random2,
                         from |-> currentAction, to |-> done.action]
           /\ lastOp' = [Op("complete") EXCEPT !.fired = TRUE, !.threw = done.threw]
           /\ events' = events
    /\ UNCHANGED << allowInteract, listeners, frameCount >>
    /\ UNCHANGED << lifeVars, dragVars, hoverVars, physVars, saveVars >>

----------------------------------------------------------------------------
(* The physics block on its own *)

\* The physics block of a pending frame (lines 1447-1491) for a character
\* that is not dragged: position and velocity after a frame of delta ms.
\* frameCount and the elapsed time of the action, which the block does not
\* read, stay as they are, so that frames can follow one another without end.
Fall(delta) ==
    /\ rafQueue # << >>
    /\ Head(rafQueue).kind = "render"
    /\ ~Released
    /\ ~isDragging
    /\ LET phys == PhysicsStep(position, velocity, delta)
       IN  /\ position' = phys.position
           /\ velocity' = phys.velocity
    /\ lastOp' = [Op("physics") EXCEPT
                    !.delta = delta,
                    !.from = [position |-> position, velocity |-> velocity]]
    /\ sample' = NoSample
    /\ events' = events
    /\ UNCHANGED << allowInteract, listeners, trackAnim, currentAction, frameCount >>
    /\ UNCHANGED << lifeVars, dragVars, hoverVars, restVars >>

----------------------------------------------------------------------------
(* Specifications *)

FullModel == BaseAnimations \cup OptionalAnimations

VehicleModel == BaseAnimations \cup {"Special"}

\* Client points: over the character standing at x = 100 on the floor, and
\* on a transparent pixel of its canvas
Pointers == {Point(310, 700), Point(110, 400)}

\* Milliseconds between two pointer events
Gaps == {0, 100}

\* The frame loop of one interactive or non-interactive character with the
\* pointer events
Init == \E interact \in BOOLEAN : Constructed(interact, FullModel)

Next ==
    \/ \E l \in loads : FetchDone(l)
    \/ \E l \in loads : AssetsDone(l)
    \/ Load(Milli(100))
    \/ frameCount < MaxFrames /\ Render(100, FALSE, 0, 0)
    \/ /\ frameCount < MaxFrames
       /\ \E r1 \in {0, 55}, r2 \in FrameTurnDraws : Render(100, TRUE, r1, r2)
    \/ events < MaxEvents /\ \E p \in Pointers, gap \in Gaps : MouseMove(p, gap)
    \/ events < MaxEvents /\ \E p \in Pointers : TouchMove(p, 100)
    \/ /\ events < MaxEvents
       /\ \E kind \in {"primary", "secondary"} : DragStart(kind, currentMousePos)
    \/ events < MaxEvents /\ \E p \in Pointers : DragStart("touch", p)
    \/ events < MaxEvents /\ DragEnd
    \/ events < MaxEvents /\ Click(currentMousePos)

Spec == Init /\ [][Next]_vars

\* The lifecycle: loads of several models, failures, polls, frames, the
\* public operations and destroy
LifeModels == {FullModel, VehicleModel}

InitLife ==
    \E interact \in BOOLEAN, m \in LifeModels : Constructed(interact, m)

NextLife ==
    \/ \E m \in LifeModels : LoadCharacterModel(m)
    \/ \E l \in loads : FetchDone(l)
    \/ \E l \in loads : LoadFailed(l)
    \/ \E l \in loads : AssetsDone(l)
    \/ Load(Milli(578))
    \/ frameCount < MaxLifeFrames /\ Render(100, FALSE, 0, 0)
    \/ frameCount < MaxLifeFrames /\ Render(100, TRUE, 55, 40)
    \/ \E b \in BOOLEAN : setAllowInteract(b)
    \/ destroy

SpecLife == InitLife /\ [][NextLife]_vars

\* playAnimation against the frame loop, for a character with and without
\* the rest animations
InitPlay == \E m \in LifeModels : Constructed(TRUE, m)

NextPlay ==
    \/ \E l \in loads : FetchDone(l)
    \/ \E l \in loads : AssetsDone(l)
    \/ Load(Milli(100))
    \/ /\ frameCount < MaxFrames
       /\ \E delta \in {0, 100} : Render(delta, FALSE, 0, 0)
    \/ /\ frameCount < MaxFrames
       /\ \E r1 \in FrameDraws, r2 \in FrameTurnDraws : Render(100, TRUE, r1, r2)
    \/ \E name \in {"Move", "Sit", "Special"} : playAnimation(name)

SpecPlay == InitPlay /\ [][NextPlay]_vars

\* The behaviour transition model: every skeleton, every action and every
\* draw
InitPick == \E m \in AllModels : Constructed(TRUE, m)

NextPick ==
    \/ \E l \in loads : FetchDone(l)
    \/ \E l \in loads : AssetsDone(l)
    \/ Load(Milli(100))
    \/ playAnimation("Interact")
    \/ \E r1 \in Draws, r2 \in TurnDraws : Completion(r1, r2)

SpecPick == InitPick /\ [][NextPick]_vars

\* Throwing the character: it stands at (100, 380) on the floor; the
\* pointer grabs it at (310, 700), carries it 60 px above the floor towards
\* the left wall, 3 px aside in a second, or beyond the right wall, and lets
\* go; each move comes with its gap (ms) to the previous pointer event.
\* Frames are 4 ms (a 240 Hz display) or 100 ms long.
PhysMoves ==
    {<<Point(310, 700), 100>>, <<Point(230, 640), 100>>,
     <<Point(233, 640), 1000>>, <<Point(810, 650), 100>>}

PhysDeltas == {4, 100}

InitPhys == Constructed(TRUE, FullModel)

NextPhys ==
    \/ \E l \in loads : FetchDone(l)
    \/ \E l \in loads : AssetsDone(l)
    \/ Load(Milli(100))
    \/ /\ frameCount < MaxPhysFrames
       /\ \E delta \in PhysDeltas : Render(delta, FALSE, 0, 0)
    \/ /\ events < MaxPhysEvents
       /\ \E mv \in PhysMoves : MouseMove(mv[1], mv[2])
    \/ events < MaxPhysEvents /\ DragStart("primary", currentMousePos)
    \/ events < MaxPhysEvents /\ DragEnd

SpecPhys == InitPhys /\ [][NextPhys]_vars

\* Successive drags of one interactive character: presses, moves with zero
\* and positive gaps, releases, and the frames that let the canvas take
\* pointer events. After a mouseup over the canvas that took the mousedown
\* the browser dispatches a click to it, however far the pointer moved in
\* between (the canvas follows the pointer).
DragPointers == {Point(310, 700), Point(230, 640)}

InitDrag == Constructed(TRUE, FullModel)

NextDrag ==
    \/ \E l \in loads : FetchDone(l)
    \/ \E l \in loads : AssetsDone(l)
    \/ Load(Milli(100))
    \/ frameCount < MaxDragFrames /\ Render(100, FALSE, 0, 0)
    \/ /\ events < MaxDragEvents
       /\ \E p \in DragPointers, gap \in Gaps : MouseMove(p, gap)
    \/ events < MaxDragEvents /\ DragStart("primary", currentMousePos)
    \/ events < MaxDragEvents /\ DragEnd
    \/ /\ events < MaxDragEvents
       /\ lastOp.op = "handleDragEnd"
       /\ Click(currentMousePos)

SpecDrag == InitDrag /\ [][NextDrag]_vars

\* Construction over a session storage entry, then the frame loop with its
\* throttled writes and the before-unload write

\* The snapshot written after loadCharacterModel(vehicle) was called on a
\* sitting character
StoredSnapshot ==
    Snapshot(Point(200000, 380000),
             [animation |-> "Sit", direction |-> "left", timestamp |-> 700],
             VehicleModel)

\* The snapshot of a vehicle in the middle of "Special"
StoredSpecial ==
    Snapshot(Point(300000, 380000),
             [animation |-> "Special", direction |-> "left", timestamp |-> 400],
             VehicleModel)

StoredEntries == {NoSnapshot, NotJson, EmptyObject, StoredSnapshot, StoredSpecial}

StoreDeltas == {100, 500}

InitStore == \E entry \in StoredEntries : ConstructedFrom(entry, TRUE, FullModel)

NextStore ==
    \/ \E l \in loads : FetchDone(l)
    \/ \E l \in loads : AssetsDone(l)
    \/ Load(Milli(100))
    \/ /\ frameCount < MaxStoreFrames
       /\ \E delta \in StoreDeltas : Render(delta, FALSE, 0, 0)
    \/ events < MaxStoreEvents /\ onBeforeUnload

SpecStore == InitStore /\ [][NextStore]_vars

\* Walks that start next to either edge of the window: the completion
\* callback picks Move, with and without a turn, and the frames walk
WalkXs == {Milli(4), Milli(100), Milli(575)}

InitWalk == Constructed(TRUE, FullModel)

NextWalk ==
    \/ \E l \in loads : FetchDone(l)
    \/ \E l \in loads : AssetsDone(l)
    \/ \E randomX \in WalkXs : Load(randomX)
    \/ frameCount < MaxWalkFrames /\ Render(100, FALSE, 0, 0)
    \/ /\ frameCount < MaxWalkFrames
       /\ \E r1 \in {0, 55}, r2 \in FrameTurnDraws : Render(100, TRUE, r1, r2)

SpecWalk == InitWalk /\ [][NextWalk]_vars

\* Vertical throws: the pointer grabs the character at (310, 700), carries
\* it to 10 px below the ceiling or to 10 px above the floor within 100 ms,
\* and lets go
TossMoves ==
    {<<Point(310, 700), 100>>, <<Point(310, 330), 100>>, <<Point(310, 690), 100>>}

InitToss == Constructed(TRUE, FullModel)

NextToss ==
    \/ \E l \in loads : FetchDone(l)
    \/ \E l \in loads : AssetsDone(l)
    \/ Load(Milli(100))
    \/ frameCount < MaxTossFrames /\ Render(100, FALSE, 0, 0)
    \/ /\ events < MaxTossEvents
       /\ \E mv \in TossMoves : MouseMove(mv[1], mv[2])
    \/ events < MaxTossEvents /\ DragStart("primary", currentMousePos)
    \/ events < MaxTossEvents /\ DragEnd

SpecToss == InitToss /\ [][NextToss]_vars

\* Falls on a 240 Hz display: every frame is FallInterval ms long. The
\* pointer grabs the character at (310, 700), lifts it 60 px, or 60 px and
\* then 40 px more within 100 ms, and lets go; the browser then runs the
\* pending frame again and again.
FallInterval == 4

FallMoves ==
    {<<Point(310, 700), 100>>, <<Point(310, 640), 100>>, <<Point(310, 600), 100>>}

InitFall == Constructed(TRUE, FullModel)

NextFall ==
    \/ \E l \in loads : FetchDone(l)
    \/ \E l \in loads : AssetsDone(l)
    \/ Load(Milli(100))
    \/ frameCount < MaxFallFrames /\ Render(FallInterval, FALSE, 0, 0)
    \/ /\ events < MaxFallEvents
       /\ \E mv \in FallMoves : MouseMove(mv[1], mv[2])
    \/ events < MaxFallEvents /\ DragStart("primary", currentMousePos)
    \/ events < MaxFallEvents /\ DragEnd
    \/ Fall(FallInterval)

\* requestAnimationFrame runs a pending frame callback at the next repaint
SpecFall == InitFall /\ [][NextFall]_vars /\ WF_vars(Fall(FallInterval))

\* setAllowInteract against the hit test: the pointer moves over the
\* character, frames run the hit test, the page switches the mode, and
\* clicks and presses arrive at the canvas when it takes pointer events
InitMode == \E interact \in BOOLEAN : Constructed(interact, FullModel)

NextMode ==
    \/ \E l \in loads : FetchDone(l)
    \/ \E l \in loads : AssetsDone(l)
    \/ Load(Milli(100))
    \/ frameCount < MaxModeFrames /\ Render(100, FALSE, 0, 0)
    \/ events < MaxModeEvents /\ \E p \in Pointers : MouseMove(p, 100)
    \/ \E b \in BOOLEAN : setAllowInteract(b)
    \/ events < MaxModeEvents /\ DragStart("primary", currentMousePos)
    \/ events < MaxModeEvents /\ Click(currentMousePos)

SpecMode == InitMode /\ [][NextMode]_vars

----------------------------------------------------------------------------
(* Claims *)

RenderPending == \E i \in 1..Len(rafQueue) : rafQueue[i].kind = "render"

InRepertoire(name) ==
    IndexOf(getAnimationNames(isVehicle, hasSpecialAnimation), name) # 0

\* C1: while isDragging is true no render frame changes position, so the
\* position stays the one the last handleDrag commanded.
C1_DragFramesKeepPosition ==
    [][(isDragging /\ frameCount' = frameCount + 1) => position' = position]_vars

\* C2: after any sequence of successful loads the capability flags are those
\* of the character loaded last: vehicle exactly when it lacks "Sit" or
\* "Sleep", hasSpecial exactly when it has "Special".
C2_FlagsOfLastLoaded ==
    character # NoCharacter =>
        /\ isVehicle = ("Sit" \notin character \/ "Sleep" \notin character)
        /\ hasSpecialAnimation = ("Special" \in character)

\* C3: for a character whose animation set lacks "Sit", nextAction never
\* returns "Sit" or "Sleep", whatever the current action and the draws.
C3_NoRestForVehicle ==
    (sample.taken /\ "Sit" \notin character) =>
        /\ ~sample.threw
        /\ sample.to.animation \notin {"Sit", "Sleep"}

C3_Witness ==
    /\ sample.taken
    /\ "Sit" \notin character
    /\ "Sleep" \in character
    /\ sample.from.animation = "Move"
    /\ sample.to.animation = "Relax"

\* C4: when the completion callback fires in a frame while the current
\* animation is not in the active name list, the action is reset to "Relax"
\* with timestamp 0 and the frame loop reschedules itself.
C4_UnknownResetsToRelax ==
    [][(/\ frameCount' = frameCount + 1
        /\ lastOp'.fired
        /\ ~InRepertoire(currentAction.animation))
       => (/\ currentAction'.animation = "Relax"
           /\ currentAction'.timestamp = 0
           /\ RenderPending')]_vars

\* C5: once destroy() has returned, no load poll and no render callback of
\* the character runs.
C5_NoCallbackAfterDestroy ==
    Released => lastOp.op \notin {"load", "loadPoll", "render"}

\* C6: destroy() leaves no event subscription of the character registered,
\* and removes them before it releases the rendering resources.
C6_DestroyDetachesAll ==
    Released =>
        /\ listeners = {}
        /\ IndexOf(destroyLog, "removeEventListeners")
             < IndexOf(destroyLog, "releaseWebGLResources")

\* C7: a character constructed in non-interactive mode (in Spec
\* allowInteract keeps its constructor value) never drags and no drag or
\* click handler ever runs for it, while a hit test that runs still sets
\* isMouseOver from the pixel under the pointer.
C7_NonInteractiveInert ==
    ~allowInteract =>
        /\ ~isDragging
        /\ lastOp.op \notin {"handleDragStart", "handleDragEnd",
                             "handleCanvasClick", "touchmove"}
        /\ lastOp.op = "mousemove" => ~lastOp.fired
        /\ (lastOp.op = "render" /\ lastOp.hit) =>
              isMouseOver = HitTest(lastMouse, position, FALSE).isMouseOver

C7_Witness ==
    /\ ~allowInteract
    /\ lastOp.op = "render"
    /\ lastOp.hit
    /\ isMouseOver
    /\ events >= 2

RECURSIVE SumTo(_, _)
SumTo(row, k) == IF k = 0 THEN 0 ELSE row[k] + SumTo(row, k - 1)

WellFormed(names, markov) ==
    /\ Len(markov) = Len(names)
    /\ \A i \in 1..Len(markov) :
          /\ Len(markov[i]) = Len(names)
          /\ SumTo(markov[i], Len(markov[i])) = 100

\* C8: each of the four transition tables has one row per name, every row
\* has one column per name and sums to 1.0 (100 hundredths), and so does the
\* table the character's flags select.
C8_TablesWellFormed ==
    /\ \A veh \in BOOLEAN, special \in BOOLEAN :
          WellFormed(getAnimationNames(veh, special),
                     getAnimationMarkov(veh, special))
    /\ WellFormed(getAnimationNames(isVehicle, hasSpecialAnimation),
                  getAnimationMarkov(isVehicle, hasSpecialAnimation))

C8_Witness ==
    /\ sample.taken
    /\ ~isVehicle
    /\ ~hasSpecialAnimation
    /\ sample.to.animation = "Sleep"

\* C9: the sampler returns the first column whose left-to-right cumulative
\* probability is >= the draw; with the full repertoire, "Relax" and the
\* draw 0.55 the next action is "Move".
C9_FirstCumulativeColumn ==
    sample.taken =>
        LET names == getAnimationNames(isVehicle, hasSpecialAnimation)
            row == getAnimationMarkov(isVehicle, hasSpecialAnimation)
                      [IndexOf(names, sample.from.animation)]
            k == IndexOf(names, sample.to.animation)
        IN  /\ ~sample.threw
            /\ k # 0
            /\ SumTo(row, k) >= sample.random1
            /\ \A j \in 1..(k - 1) : SumTo(row, j) < sample.random1
            /\ (/\ ~isVehicle /\ hasSpecialAnimation
                /\ sample.from.animation = "Relax"
                /\ sample.random1 = 55) => sample.to.animation = "Move"

C9_Witness ==
    /\ sample.taken
    /\ ~isVehicle
    /\ hasSpecialAnimation
    /\ sample.from.animation = "Relax"
    /\ sample.random1 = 55
    /\ sample.to.animation = "Move"

\* C10: nextAction keeps the facing direction except on "Relax" -> "Move",
\* where it flips exactly when the second draw is below 0.4.
C10_DirectionKept ==
    (sample.taken /\ ~sample.threw) =>
        IF sample.from.animation = "Relax" /\ sample.to.animation = "Move"
        THEN sample.to.direction =
               IF sample.random2 < 40
               THEN (IF sample.from.direction = "left" THEN "right" ELSE "left")
               ELSE sample.from.direction
        ELSE sample.to.direction = sample.from.direction

C10_Witness ==
    /\ sample.taken
    /\ sample.from.animation = "Relax"
    /\ sample.from.direction = "left"
    /\ sample.to.animation = "Move"
    /\ sample.random2 = 39
    /\ sample.to.direction = "right"

----------------------------------------------------------------------------
(* Claims about the physics step. Velocities are in 1/1000 px/s, positions
   in 1/1000 px, the frame delta in ms. *)

\* The frame that ran last applied the physics block and no locomotion
PhysicsFrame ==
    /\ lastOp.op = "render"
    /\ ~isDragging
    /\ currentAction.animation # "Move"

\* A velocity after the drag multiply (x 0.98), the snap below 5 px/s and
\* the clamp to +-1000 px/s
Damped(v) ==
    LET d == Tdiv(v * 98, 100)
        z == IF d > -5000 /\ d < 5000 THEN 0 ELSE d
    IN  IF z > 1000000 THEN 1000000 ELSE IF z < -1000000 THEN -1000000 ELSE z

\* Where the frame's integration puts x before the walls are looked at
DrivenX ==
    lastOp.from.position.x
      + Tdiv(Damped(lastOp.from.velocity.x) * lastOp.delta, 1000)

\* C11 as stated: a step entered with velocity.x = v0 that drives x beyond a
\* wall ends on the wall with velocity.x = -v0 * 0.7 (to 0.01 px/s).
C11_BounceFromEntryVelocity ==
    (PhysicsFrame /\ (DrivenX < 0 \/ DrivenX > 580000)) =>
        /\ position.x = IF DrivenX < 0 THEN 0 ELSE 580000
        /\ Abs(velocity.x - Tdiv(-lastOp.from.velocity.x * 70, 100)) <= 10

\* C11 amended: a step that drives x beyond a wall ends on the wall with
\* velocity.x = -v1 * 0.7, where v1 is the entry velocity after the step's
\* drag multiply, snap and clamp.
C11_BounceFromDampedVelocity ==
    (PhysicsFrame /\ (DrivenX < 0 \/ DrivenX > 580000)) =>
        /\ position.x = IF DrivenX < 0 THEN 0 ELSE 580000
        /\ velocity.x = Tdiv(-Damped(lastOp.from.velocity.x) * 70, 100)

C11_Witness ==
    /\ PhysicsFrame
    /\ lastOp.from.position.x > 0
    /\ lastOp.from.velocity.x = -800000
    /\ DrivenX < 0
    /\ position.x = 0
    /\ velocity.x = 548800

\* C12: a velocity component whose magnitude is below 5 px/s is exactly 0
\* after one physics step; on the y axis the component tested is the one
\* gravity has been added to.
C12_SnapToZero ==
    PhysicsFrame =>
        /\ Abs(lastOp.from.velocity.x) < 5000 => velocity.x = 0
        /\ Abs(lastOp.from.velocity.y + 1000 * lastOp.delta) < 5000
              => velocity.y = 0

C12_Witness ==
    /\ PhysicsFrame
    /\ lastOp.from.velocity.x = 3000
    /\ lastOp.from.velocity.y = 0
    /\ lastOp.delta = 4
    /\ lastOp.from.position.y < 380000
    /\ velocity = Point(0, 0)

\* A frame of the fall: it starts on or above the floor, at rest or moving
\* down no faster than the clamp and than the terminal velocity
\* 49 * GRAVITY * delta of its delta
FallFrame ==
    /\ PhysicsFrame
    /\ lastOp.from.position.y >= 0
    /\ lastOp.from.position.y <= 380000
    /\ \/ lastOp.from.velocity.y = 0
       \/ /\ lastOp.from.velocity.y >= 5000
          /\ lastOp.from.velocity.y <= 1000000
          /\ lastOp.from.velocity.y <= 49000 * lastOp.delta

\* C13 as stated: in the fall velocity.y does not decrease and position.y
\* does not increase until floor contact, after which velocity.y = 0.
C13_FallDecreasesY ==
    FallFrame =>
        \/ /\ velocity.y >= lastOp.from.velocity.y
           /\ position.y <= lastOp.from.position.y
        \/ /\ position.y = 380000
           /\ velocity.y = 0

\* C13 amended: in the fall velocity.y does not decrease and position.y
\* (screen coordinate, the floor is at maxY) does not decrease: the frame
\* either advances y by the new velocity or ends on the floor with
\* velocity.y = 0.
C13_FallIncreasesY ==
    FallFrame =>
        \/ /\ velocity.y >= lastOp.from.velocity.y
           /\ position.y = lastOp.from.position.y
                             + Tdiv(velocity.y * lastOp.delta, 1000)
           /\ position.y <= 380000
        \/ /\ position.y = 380000
           /\ velocity.y = 0

C13_Witness ==
    /\ FallFrame
    /\ lastOp.from.velocity = Point(0, 0)
    /\ lastOp.from.position.y = 320000
    /\ velocity.y = 98000
    /\ position.y = 329800

----------------------------------------------------------------------------
(* Claims about the hit test *)

\* The render-target pixel (1/1000 device px) the pointer maps to: the
\* offset in the canvas box times the pixel ratio 2, the row counted from
\* the bottom of the 840-row target
TargetX == (currentMousePos.x * 1000 - position.x) * 2

TargetY == 840000 - (currentMousePos.y * 1000 - position.y) * 2

TargetInRange ==
    /\ TargetX >= 0 /\ TargetX < 840000
    /\ TargetY >= 0 /\ TargetY < 840000

\* C14: after a frame that ran the hit test, isMouseOver is true iff the
\* pointer maps to a pixel inside the render target whose alpha is not 0.
C14_OverIffOpaquePixel ==
    (lastOp.op = "render" /\ lastOp.hit) =>
        isMouseOver =
            (TargetInRange /\ PixelAlpha(TargetX \div 1000, TargetY \div 1000) # 0)

C14_Witness ==
    /\ lastOp.op = "render"
    /\ lastOp.hit
    /\ currentMousePos = Point(310, 700)
    /\ position.x > 100000
    /\ isMouseOver

\* C15: a frame runs the hit test exactly when the frame count is a
\* multiple of 5 or the pointer coordinate differs from the one recorded at
\* the last hit test, and isMouseOver changes only in a frame that runs it.
C15_HitTestThrottle ==
    [][/\ frameCount' = frameCount + 1 =>
            (lastOp'.hit <=> (frameCount' % 5 = 0 \/ currentMousePos # lastMouse))
       /\ isMouseOver' # isMouseOver =>
            (frameCount' = frameCount + 1 /\ lastOp'.hit)]_vars

----------------------------------------------------------------------------
(* Claims about the pointer handlers *)

\* The step delivers a pointer event to the handler `name`
Handled(name) == events' = events + 1 /\ lastOp'.op = name

\* C16: a click on a loaded interactive character sets the action to
\* "Interact" with the direction it had and timestamp 0, and plays it once.
C16_ClickPlaysInteractOnce ==
    [][(Handled("handleCanvasClick") /\ character # NoCharacter) =>
          /\ currentAction' = [animation |-> "Interact",
                               direction |-> currentAction.direction,
                               timestamp |-> 0]
          /\ trackAnim' = [name |-> "Interact", loop |-> FALSE]]_vars

C16_Witness ==
    /\ lastOp.op = "handleCanvasClick"
    /\ currentAction =
         [animation |-> "Interact", direction |-> "left", timestamp |-> 0]
    /\ trackAnim = [name |-> "Interact", loop |-> FALSE]

\* C17: a primary-button press or a touch start sets isDragging, records
\* the anchor pointer - position and, with a character loaded, forces the
\* action to "Relax", looping, timestamp 0, direction unchanged.
C17_PressStartsDrag ==
    [][(Handled("handleDragStart") /\ lastOp'.fired) =>
          /\ isDragging'
          /\ dragStartRelative' = Point(lastOp'.at.x * 1000 - position.x,
                                        lastOp'.at.y * 1000 - position.y)
          /\ position' = position
          /\ character # NoCharacter =>
                /\ currentAction' = [animation |-> "Relax",
                                     direction |-> currentAction.direction,
                                     timestamp |-> 0]
                /\ trackAnim' = [name |-> "Relax", loop |-> TRUE]]_vars

C17_Witness ==
    /\ lastOp.op = "handleDragStart"
    /\ lastOp.fired
    /\ isDragging
    /\ dragStartRelative.x > 210000
    /\ currentAction =
         [animation |-> "Relax", direction |-> "left", timestamp |-> 0]
    /\ trackAnim = [name |-> "Relax", loop |-> TRUE]

\* C18: a release sets isDragging to false and leaves velocity, position
\* and the action unchanged; the physics step of the first frame after the
\* release starts from the velocity the last drag event recorded.
C18_ReleaseKeepsThrow ==
    [][/\ Handled("handleDragEnd") =>
            /\ ~isDragging'
            /\ velocity' = velocity
            /\ position' = position
            /\ currentAction' = currentAction
       /\ (lastOp.op = "handleDragEnd" /\ frameCount' = frameCount + 1
             /\ currentAction.animation # "Move") =>
            /\ velocity'.x \in {Damped(velocity.x),
                                Tdiv((0 - Damped(velocity.x)) * 70, 100)}
            /\ velocity'.y \in {Damped(velocity.y + 1000 * lastOp'.delta), 0}]_vars

C18_Witness ==
    /\ lastOp.op = "render"
    /\ lastOp.delta = 4
    /\ ~isDragging
    /\ lastOp.from = [position |-> Point(20000, 320000),
                      velocity |-> Point(-800000, -600000)]
    /\ velocity = Point(-784000, -584080)
    /\ position = Point(16864, 317664)

\* The step runs handleDrag on a move while a drag is in progress
DragMove ==
    /\ events' = events + 1
    /\ lastOp'.op \in {"mousemove", "touchmove"}
    /\ lastOp'.fired

\* C19: on a pointer move while dragging, velocity becomes
\* (newPosition - oldPosition) / gap when a previous sample of the same
\* drag exists and the gap is positive; with a zero gap or on the first
\* move of a drag velocity is left unchanged, whatever an earlier drag
\* sampled.
C19_DragVelocity ==
    [][/\ DragMove =>
            /\ position' = Point(lastOp'.at.x * 1000 - dragStartRelative.x,
                                 lastOp'.at.y * 1000 - dragStartRelative.y)
            /\ velocity' =
                 IF lastDragEvent # "null" /\ lastOp'.delta > 0
                 THEN Point(Tdiv((position'.x - position.x) * 1000,
                                 lastOp'.delta),
                            Tdiv((position'.y - position.y) * 1000,
                                 lastOp'.delta))
                 ELSE velocity
       /\ (~isDragging /\ isDragging') => lastDragEvent' = "null"
       /\ (DragMove /\ lastOp.op = "handleDragStart" /\ lastOp.fired
             /\ ~lastOp.dragging) =>
            velocity' = velocity
       /\ (DragMove /\ lastOp.op \in {"mousemove", "touchmove"} /\ lastOp.fired) =>
            lastDragEvent # "null"]_vars

C19_Witness ==
    /\ lastOp.op = "mousemove"
    /\ lastOp.fired
    /\ lastOp.delta = 100
    /\ lastOp.at = Point(230, 640)
    /\ dragStartRelative = Point(210000, 320000)
    /\ position = Point(20000, 320000)
    /\ velocity = Point(-800000, -600000)

----------------------------------------------------------------------------
(* Claims about failed loads *)

\* Scheduled callbacks of one kind ("load" or "render")
Pending(queue, kind) ==
    Cardinality({i \in 1..Len(queue) : queue[i].kind = kind})

\* C20: when the assets of a loadCharacterModel call fail to load, the
\* failure is logged and the call schedules neither a load poll nor a
\* frame; a load poll is scheduled only by a call that succeeds, the frame
\* loop only by the load() such a call scheduled.
C20_FailedLoadStartsNothing ==
    [][/\ (lastOp'.op = "loadFailed" /\ loads' # loads) =>
            /\ rafQueue' = rafQueue
            /\ animationFrameId' = animationFrameId
            /\ character' = character
            /\ frameCount' = frameCount
       /\ Pending(rafQueue', "load") > Pending(rafQueue, "load") =>
            lastOp'.op = "assetsDone"
       /\ Pending(rafQueue', "render") > Pending(rafQueue, "render") =>
            (lastOp'.op = "load" /\ ~lastOp'.threw)
       /\ frameCount' = frameCount + 1 => character # NoCharacter]_vars

C20_Witness ==
    /\ lastOp.op = "loadFailed"
    /\ loads = {}
    /\ loadCalls = 0
    /\ rafQueue = << >>
    /\ character = NoCharacter
    /\ frameCount = 0

----------------------------------------------------------------------------
(* Claims about persistence *)

\* C21: when session storage holds no entry or a malformed entry for the
\* character's key, construction proceeds as with no prior state: no error
\* escapes, position and action keep their defaults, the model is the
\* constructor argument and its load starts.
C21_MalformedAsAbsent ==
    (lastOp.op = "constructor" /\ stored \in {NoSnapshot, NotJson, EmptyObject}) =>
        /\ ~lastOp.threw
        /\ position = Point(UnresolvedX, UnresolvedY)
        /\ currentAction =
             [animation |-> "Relax", direction |-> "right", timestamp |-> 0]
        /\ model = FullModel
        /\ loads = {[id |-> 0, model |-> FullModel, phase |-> "fetch",
                     replaced |-> FullModel]}

\* C23: a frame changes the stored snapshot only when at least
\* SAVE_INTERVAL ms have passed since the last write, and a frame that
\* reaches its save after that long does write; the before-unload handler
\* writes whatever the time since the last write.
C23_ThrottledWrites ==
    [][/\ (frameCount' = frameCount + 1 /\ stored' # stored) =>
             sinceSave + lastOp'.delta >= SAVE_INTERVAL
       /\ (frameCount' = frameCount + 1 /\ ~lastOp'.threw
             /\ sinceSave + lastOp'.delta >= SAVE_INTERVAL) =>
             /\ stored' = Snapshot(position', currentAction', model')
             /\ sinceSave' = 0
       /\ Handled("beforeunload") =>
             /\ stored' = Snapshot(position, currentAction, model)
             /\ sinceSave' = 0]_vars

C23_Witness ==
    /\ lastOp.op = "beforeunload"
    /\ frameCount = 4
    /\ stored = Snapshot(Point(100000, 380000),
                         [animation |-> "Relax", direction |-> "right",
                          timestamp |-> 1200],
                         FullModel)
    /\ sinceSave = 0

----------------------------------------------------------------------------
(* Claims about the frame loop *)

\* A loadCharacterModel call has not finished, or the load() it scheduled
\* has not yet seen loading complete
LoadInProgress == loads # {} \/ Pending(rafQueue, "load") > 0

\* C22: while a character load is in progress, from the loadCharacterModel
\* call until load() observes loading complete, no render iteration runs
\* (so none advances physics, locomotion or animation).
C22_NoFrameDuringLoad ==
    [][LoadInProgress => frameCount' = frameCount]_vars

\* The step is a frame that starts with the character where physics leaves
\* it alone: dragged, or at rest on the floor
StillFrame ==
    /\ frameCount' = frameCount + 1
    /\ \/ isDragging
       \/ velocity = Point(0, 0) /\ position.y = maxY /\ lastOp'.delta = 100

\* C24: a frame accumulates dt, then runs physics, Move locomotion, the
\* pose update with the completion callback, the hit test, persistence and
\* the reschedule, in this order: an action the callback chooses in a frame
\* does not move the character in that frame, the replaced action starts
\* at 0, and the hit test and the snapshot of a frame use the position
\* after that frame's physics and locomotion.
C24_FrameOrder ==
    [][frameCount' = frameCount + 1 =>
          /\ (StillFrame /\ currentAction.animation # "Move") =>
                position' = position
          /\ (lastOp'.fired /\ ~lastOp'.threw) => currentAction'.timestamp = 0
          /\ lastOp'.hit =>
                /\ isMouseOver' =
                     HitTest(currentMousePos, position', allowInteract).isMouseOver
                /\ lastMouse' = currentMousePos
          /\ stored' # stored =>
                stored' = Snapshot(position', currentAction', model')
          /\ ~lastOp'.threw => Pending(rafQueue', "render") >= 1]_vars

C24_Witness ==
    /\ lastOp.op = "render"
    /\ lastOp.fired
    /\ lastOp.hit
    /\ lastOp.from.position = position
    /\ currentAction = [animation |-> "Move", direction |-> "left", timestamp |-> 0]
    /\ stored = Snapshot(position, currentAction, model)
    /\ isMouseOver

\* C25: in a frame whose action is "Move", position.x advances from where
\* physics left it by MOVING_SPEED * dt in the facing direction; on reaching
\* x <= 0 or x >= maxX it is set to that edge and the direction flips; the
\* walk leaves velocity and position.y as physics left them.
C25_MoveWalks ==
    [][(frameCount' = frameCount + 1 /\ currentAction.animation = "Move") =>
          LET base == IF isDragging
                      THEN [position |-> position, velocity |-> velocity]
                      ELSE PhysicsStep(position, velocity, lastOp'.delta)
              x == IF currentAction.direction = "left"
                   THEN base.position.x - 30 * lastOp'.delta
                   ELSE base.position.x + 30 * lastOp'.delta
          IN  /\ position'.x = IF x <= 0 THEN 0 ELSE IF x >= maxX THEN maxX ELSE x
              /\ position'.y = base.position.y
              /\ velocity' = base.velocity
              /\ ~lastOp'.fired =>
                    currentAction'.direction =
                       IF x <= 0 \/ x >= maxX
                       THEN turnDirection(currentAction.direction)
                       ELSE currentAction.direction]_vars

\* position.y where the physics step of the frame that ran last put it
\* before the floor / ceiling test
UnboundY ==
    lastOp.from.position.y
      + Tdiv(Damped(lastOp.from.velocity.y + 1000 * lastOp.delta) * lastOp.delta,
             1000)

C27_VelocityBounded ==
    (lastOp.op = "render" /\ ~isDragging) =>
        /\ velocity.x >= -1000000 /\ velocity.x <= 1000000
        /\ velocity.y >= -1000000 /\ velocity.y <= 1000000

C27_Witness ==
    /\ lastOp.op = "render"
    /\ ~isDragging
    /\ lastOp.from.velocity.x = -5800000
    /\ position.x = 0
    /\ velocity.x = 700000

----------------------------------------------------------------------------
(* Claims about the action and the engine's track *)

\* The step replaces the active action outside a frame: a click or an
\* accepted press on a loaded character, or playAnimation
Replaces ==
    \/ Handled("handleCanvasClick") /\ character # NoCharacter
    \/ Handled("handleDragStart") /\ lastOp'.fired /\ character # NoCharacter
    \/ lastOp'.op = "playAnimation" /\ frameCount' = frameCount /\ events' = events
         /\ loads' = loads /\ rafQueue' = rafQueue

\* The frame adds its dt to the elapsed time of the action, which stays
Accumulates ==
    /\ currentAction'.timestamp = currentAction.timestamp + lastOp'.delta
    /\ currentAction'.animation = currentAction.animation

\* C28: right after the active action is replaced (by the completion
\* callback, a click, a drag start or playAnimation) its elapsed time is 0,
\* and every frame that does not replace it adds exactly the frame's dt to
\* it, also while dragging; no other step changes the animation name
\* without resetting the elapsed time.
C28_ElapsedTime ==
    [][/\ Replaces => currentAction'.timestamp = 0
       /\ (frameCount' = frameCount + 1 /\ ~lastOp'.fired) => Accumulates
       /\ (frameCount' = frameCount + 1 /\ lastOp'.fired) =>
             \/ currentAction'.timestamp = 0
             \/ lastOp'.threw /\ Accumulates
       /\ currentAction'.animation # currentAction.animation =>
             currentAction'.timestamp = 0]_vars

C28_Witness ==
    /\ lastOp.op = "render"
    /\ ~lastOp.fired
    /\ isDragging
    /\ frameCount = 3
    /\ currentAction = [animation |-> "Move", direction |-> "left", timestamp |-> 100]

\* The step is a (re)load: load() builds the character
Loaded == lastOp'.op = "load" /\ ~lastOp'.threw /\ rafQueue' # rafQueue

\* C29: once a character is loaded, after every completion callback, click,
\* drag start, playAnimation and (re)load the animation commanded on the
\* engine's track is currentAction.animation; the completion callback
\* commands the name of the action it chose, looping.
C29_TrackFollowsAction ==
    [][/\ (character' # NoCharacter
             /\ \/ Replaces
                \/ Loaded
                \/ frameCount' = frameCount + 1 /\ lastOp'.fired) =>
             trackAnim'.name = currentAction'.animation
       /\ (frameCount' = frameCount + 1 /\ lastOp'.fired
             /\ currentAction'.timestamp = 0) =>
             trackAnim' = [name |-> currentAction'.animation, loop |-> TRUE]]_vars

\* C30: "Interact" is triggered only by a press and release without
\* dragging: the click that ends a press, pointer moves that drag the
\* character, and a release does not set the action to "Interact".
C30_NoInteractAfterDrag ==
    [][(lastOp.op = "handleDragEnd" /\ lastOp.dragging) =>
          ~(Handled("handleCanvasClick") /\ currentAction'.animation = "Interact")]_vars

----------------------------------------------------------------------------
(* Claims about the outline pass *)

\* A frame that reaches the outline pass (lines 1575-1604)
DrawnFrame == frameCount' = frameCount + 1 /\ ~lastOp'.threw

\* C31: in every frame the outline width passed to the compositing pass is
\* non-zero iff allowInteract and isMouseOver both hold, and the alpha passed
\* is 0.3 iff allowInteract is false and isMouseOver holds, otherwise 1.0.
C31_OutlineAndAlpha ==
    [][DrawnFrame =>
          /\ lastOp'.outlineWidth # 0 <=> (allowInteract' /\ isMouseOver')
          /\ lastOp'.alpha = 30 <=> (~allowInteract' /\ isMouseOver')
          /\ lastOp'.alpha \in {30, 100}]_vars

\* A frame's hit test finds the pointer over a non-interactive character:
\* no outline, alpha 0.3
C31_Witness ==
    /\ lastOp.op = "render"
    /\ ~lastOp.threw
    /\ lastOp.hit
    /\ ~allowInteract
    /\ isMouseOver
    /\ lastOp.outlineWidth = 0
    /\ lastOp.alpha = 30

----------------------------------------------------------------------------
(* Claims about restoring a snapshot *)

\* The store holds a snapshot with all three members
WrittenBySave ==
    /\ stored.present
    /\ DOMAIN stored = {"present", "position", "currentAction", "characterResource"}

\* The saved action if the repertoire of the loaded character has it,
\* otherwise "Relax" from the start
Resumed(action) ==
    IF InRepertoire(action.animation)
    THEN action
    ELSE [action EXCEPT !.animation = "Relax", !.timestamp = 0]

\* C32: constructing a character over a snapshot written by
\* saveToSessionStorage restores position, currentAction and the model
\* descriptor equal to the saved values, the saved model taking precedence
\* over initialCharacter and being the one loaded; once loaded, the character
\* plays the saved action unless the new repertoire lacks it.
C32_RestoresSnapshot ==
    /\ (lastOp.op = "constructor" /\ WrittenBySave) =>
          /\ ~lastOp.threw
          /\ position = stored.position
          /\ currentAction = stored.currentAction
          /\ model = stored.characterResource
          /\ loads = {[id |-> 0, model |-> stored.characterResource,
                       phase |-> "fetch",
                       replaced |-> stored.characterResource]}
    /\ (lastOp.op = "load" /\ ~lastOp.threw /\ frameCount = 0 /\ WrittenBySave) =>
          /\ character = stored.characterResource
          /\ currentAction = Resumed(stored.currentAction)
          /\ trackAnim = [name |-> currentAction.animation, loop |-> TRUE]
          /\ stored.position.x # UnresolvedX => position = stored.position

\* The vehicle saved in the middle of "Special" has been reloaded over the
\* constructor's full model and plays "Special" from 0.4 s
C32_Witness ==
    /\ lastOp.op = "load"
    /\ stored = StoredSpecial
    /\ character = VehicleModel
    /\ model = VehicleModel
    /\ position = Point(300000, 380000)
    /\ currentAction = [animation |-> "Special", direction |-> "left", timestamp |-> 400]
    /\ trackAnim = [name |-> "Special", loop |-> TRUE]

----------------------------------------------------------------------------
(* Claims about the window bounds *)

\* C33: after every frame executed while not dragging the position is
\* inside the window, 0 <= x <= maxX and 0 <= y <= maxY; from the unresolved
\* initial position the first load picks x in [0, maxX] and the first frame
\* leaves y = maxY.
C33_InsideWindow ==
    [][/\ (frameCount' = frameCount + 1 /\ ~isDragging) =>
             /\ position'.x \in 0..maxX
             /\ position'.y \in 0..maxY
       /\ (lastOp'.op = "load" /\ ~lastOp'.threw /\ position.x = UnresolvedX) =>
             /\ position'.x \in 0..maxX
             /\ position'.y = UnresolvedY
       /\ (frameCount' = frameCount + 1 /\ ~isDragging
             /\ position.y = UnresolvedY) =>
             position'.y = maxY]_vars

\* The first frame after a drag that carried the character 100 px beyond
\* the left edge of the window
C33_Witness ==
    /\ lastOp.op = "render"
    /\ ~isDragging
    /\ lastOp.from.position = Point(-100000, 80000)
    /\ position.x = 0
    /\ position.y \in 0..maxY

----------------------------------------------------------------------------
(* Claims about the pending frame callbacks *)

\* C34: after any interleaving of loadCharacterModel calls, asset-load
\* completions, load polls and frames, at most one render callback is
\* pending and animationFrameId identifies it, so that one
\* cancelAnimationFrame(animationFrameId) stops the frame loop.
C34_OneTrackedRender ==
    /\ Pending(rafQueue, "render") <= 1
    /\ \A i \in 1..Len(rafQueue) :
          rafQueue[i].kind = "render" =>
              rafQueue[i].tracked /\ animationFrameId = "set"

----------------------------------------------------------------------------
(* Claims about falling *)

\* A loaded character that is not dragged and is above the floor
Airborne == character # NoCharacter /\ ~isDragging /\ position.y < maxY

Landed == position.y = maxY /\ velocity.y = 0

\* C35: with a fixed positive frame interval, a character that is not
\* dragged and is above the floor eventually stands on the floor,
\* position.y = maxY with velocity.y = 0, unless it is grabbed first
\* (gravity is never cancelled by the snap to zero).
C35_FallsToFloor == [](Airborne => <>(Landed \/ isDragging))

----------------------------------------------------------------------------
(* Claims about the transitions nextAction makes *)

\* The sampled transition started from an action of the name list, did not
\* fail, has positive probability in the table, and does not lead to
\* "Interact"
SampledPositive ==
    (sample.taken /\ InRepertoire(sample.from.animation)) =>
        LET names == getAnimationNames(isVehicle, hasSpecialAnimation)
            row == getAnimationMarkov(isVehicle, hasSpecialAnimation)
                      [IndexOf(names, sample.from.animation)]
            k == IndexOf(names, sample.to.animation)
        IN  /\ ~sample.threw
            /\ k # 0
            /\ row[k] > 0
            /\ sample.to.animation # "Interact"

\* C36: for every capability variant, every current action of its name list
\* and every draw in [0, 1), nextAction does not fail and returns an action
\* whose transition probability from the current action is strictly
\* positive; it never returns "Interact", which is entered only through a
\* click, playAnimation or a restored snapshot.
C36_PositiveTransitions ==
    [][/\ SampledPositive'
       /\ (currentAction'.animation = "Interact"
             /\ currentAction.animation # "Interact") =>
             lastOp'.op \in {"handleCanvasClick", "playAnimation"}]_vars

\* The largest draw takes "Relax" to the last column, "Special"
C36_Witness ==
    /\ sample.taken
    /\ ~sample.threw
    /\ ~isVehicle
    /\ hasSpecialAnimation
    /\ sample.random1 = 99
    /\ sample.from.animation = "Relax"
    /\ sample.to.animation = "Special"

\* The sampled transition, if it started from "Interact", gave "Relax" from
\* the start, facing the same way
SampledRelax ==
    (sample.taken /\ sample.from.animation = "Interact") =>
        /\ ~sample.threw
        /\ sample.to = [animation |-> "Relax",
                        direction |-> sample.from.direction,
                        timestamp |-> 0]
        /\ currentAction = sample.to
        /\ trackAnim = [name |-> "Relax", loop |-> TRUE]

\* C37: when the "Interact" animation completes, the next action is always
\* "Relax" with the same facing direction, for every capability variant and
\* every draw; in a frame as well as for the callback on its own.
C37_InteractThenRelax ==
    [][/\ SampledRelax'
       /\ (frameCount' = frameCount + 1 /\ lastOp'.fired
             /\ currentAction.animation = "Interact") =>
             /\ currentAction' = [animation |-> "Relax",
                                  direction |-> currentAction.direction,
                                  timestamp |-> 0]
             /\ trackAnim' = [name |-> "Relax", loop |-> TRUE]]_vars

\* A vehicle facing left has finished "Interact" with the largest draw
C37_Witness ==
    /\ sample.taken
    /\ isVehicle
    /\ hasSpecialAnimation
    /\ sample.random1 = 99
    /\ sample.from.animation = "Interact"
    /\ sample.from.direction = "left"
    /\ currentAction = [animation |-> "Relax", direction |-> "left", timestamp |-> 0]

----------------------------------------------------------------------------
(* Claims about the model descriptor *)

\* C38: if loadCharacterModel fails, the model descriptor (what getModel
\* returns and the snapshot persists) is the same as before the call. Stated
\* for the call made last, with no other call in flight.
C38_FailedLoadKeepsModel ==
    [][\A l \in loads :
          (lastOp'.op = "loadFailed" /\ loads = {l} /\ loads' = {}
             /\ l.id = loadCalls) =>
             model' = l.replaced]_vars

----------------------------------------------------------------------------
(* Claims about the pointer-events gate *)

\* C39: whenever the canvas accepts pointer events, allowInteract is true
\* and the most recent hit test found the pointer over the character, also
\* after setAllowInteract(false) between hit tests; so a click or a press is
\* handled only while allowInteract is true.
C39_AutoOnlyWhenInteractive ==
    [][/\ pointerEvents' = "auto" => (allowInteract' /\ isMouseOver')
       /\ (Handled("handleCanvasClick") \/ Handled("handleDragStart")) =>
             allowInteract]_vars

====
